---------------------------- MODULE Spec2Model ----------------------------
(***************************************************************************)
(* Reliable UDP: stop-and-wait client (client.py), deduplicating server    *)
(* (server.py) and the wire codec both share.                              *)
(*                                                                         *)
(* Text is a sequence of one-character strings, so that formatting and     *)
(* parsing are computed character by character as the code does.           *)
(***************************************************************************)
EXTENDS Integers, Sequences, FiniteSets, Bags, TLC

VARIABLES
    \* ---- client.py main() ----
    c_pc,             \* "input" (at input("> ")), "recv" (blocked in recvfrom), "exited"
    seq_num,          \* client.py:101
    packets_sent,     \* client.py:78
    retransmissions,  \* client.py:79
    acks_received,    \* client.py:80
    message,          \* the user message being sent (text)
    retry_count,      \* client.py:118
    packet_sent_time, \* client.py:119 : "None" or "set"
    wait_elapsed,     \* ticks spent in the current recvfrom call (socket timeout)
    c_outcome,        \* what the loop printed last: "NONE","PENDING","ACKED","FAILED","ERROR"
    c_sent,           \* history: datagrams passed to sendto for the current message
    c_rcvd,           \* history: number of datagrams recvfrom returned for the current message
    c_timeouts,       \* history: number of socket.timeout raised for the current message
    c_msg_no,         \* history: number of user messages entered so far
    c_acked,          \* history: msg numbers the client reported ACKED
    c_prev,           \* history: outcome and transmitted datagrams of the previous message
    c_waited,         \* history: clock ticks spent in recvfrom for the current message
    \* ---- server.py main() ----
    s_state,          \* "running", "exited" (exit_event), "crashed" (except Exception, line 110)
    client_seq_nums,  \* server.py:49, a function from client keys to integers
    packets_received, \* server.py:39
    unique_packets_received, \* server.py:40
    duplicate_packets,       \* server.py:41
    acks_sent,               \* server.py:42
    s_last,           \* history: the datagram handled last and how it was classified
    s_hist,           \* history: per endpoint, the decodable packets handled, in order
    s_new_tags,       \* history: msg numbers of the packets classified new
    s_malformed,      \* history: number of datagrams received that parse_packet did not decode
    \* ---- the datagram transport ----
    net,              \* bag of datagrams in flight
    injected,         \* number of datagrams the environment injected
    \* ---- codec harness ----
    k_pc, k_in, k_wire, k_out_client, k_out_server,
    \* ---- proxy.py main(): the receive loop ----
    config,           \* proxy.py:430, the six shaping fields (percent; milliseconds)
    latest_client,    \* proxy.py:448
    delayed_packets,  \* proxy.py:451, the FIFO queue
    metrics,          \* proxy.py:454
    p_pc,             \* "recv", "drop" (line 557/598), "delay" (560/601), "enqueue" (562/603),
                      \* "stopped" (except Exception, line 658)
    p_cur,            \* the datagram being processed: data, addr and its direction
    p_hist,           \* history: per received datagram, the decisions taken and the outcome
    p_sent,           \* history: every sendto of the proxy socket, in order
    \* ---- proxy.py process_delayed_packets() ----
    d_pc,             \* "get" (blocked in Queue.get), "sleep" (in time.sleep)
    d_cur,            \* the entry taken from the queue
    d_wake,           \* the time at which time.sleep returns at the earliest
    now,              \* time.time(), in milliseconds
    \* ---- proxy.py command_interface() ----
    con_pc,           \* "input", "writing" (between the writes of one command), "exited"
    con_writes,       \* the writes of the current command still to be made
    con_count,        \* number of commands entered
    con_last          \* history: the last command and the policy when it was entered

clientVars == <<c_pc, seq_num, packets_sent, retransmissions, acks_received, message,
                retry_count, packet_sent_time, wait_elapsed, c_outcome, c_sent, c_rcvd,
                c_timeouts, c_msg_no, c_acked, c_prev, c_waited>>
serverVars == <<s_state, client_seq_nums, packets_received, unique_packets_received,
                duplicate_packets, acks_sent, s_last, s_hist, s_new_tags, s_malformed>>
netVars    == <<net, injected>>
codecVars  == <<k_pc, k_in, k_wire, k_out_client, k_out_server>>
pipeVars   == <<latest_client, delayed_packets, metrics, p_pc, p_cur, p_hist, p_sent>>
schedVars  == <<d_pc, d_cur, d_wake>>
conVars    == <<con_pc, con_writes, con_count, con_last>>
proxyVars  == <<config, pipeVars, schedVars, now, conVars>>
vars       == <<clientVars, serverVars, netVars, codecVars, proxyVars>>

---------------------------------------------------------------------------
\* Bounds of the model.
MaxMessages == 2    \* user messages typed into the client
MaxInjectClient == 2  \* datagrams a peer sends to the client alone
MaxInjectServer == 3  \* datagrams peers send to the server alone
MaxSeqIn    == 2    \* largest sequence number in an injected datagram
TimeoutTicks == 1   \* clock ticks in one socket timeout
MaxCodecSeq == 11   \* largest sequence number given to the codec harness
MaxPayload  == 2    \* longest payload given to the codec harness
MaxProxyPackets == 2  \* datagrams the proxy receives from its peers
MaxArrivals == 3      \* datagrams the proxy receives in the longest runs
MaxLivePackets == 1   \* datagrams the proxy receives while the policy is changed
MaxTicks    == 2    \* the proxy's clock stops after MaxTicks steps
TickMs      == 100  \* one step of the proxy's clock (ms)
MaxGrid     == 10   \* delays drawn are multiples of TickMs up to MaxGrid * TickMs
MaxCommands == 2    \* commands typed into the proxy's console
MaxLiveCommands == 1   \* commands typed while datagrams are being shaped

\* client.py:117
max_retries == 5

---------------------------------------------------------------------------
\* Text.
DATA == <<"D", "A", "T", "A">>
ACK  == <<"A", "C", "K">>
Bar  == "|"
\* A byte that is not valid UTF-8 (bytes.decode() raises UnicodeDecodeError).
InvalidByte == "\\xff"

DigitChars == <<"0", "1", "2", "3", "4", "5", "6", "7", "8", "9">>
IsDigit(c) == \E i \in 1..10 : DigitChars[i] = c
DigitVal(c) == (CHOOSE i \in 1..10 : DigitChars[i] = c) - 1

\* str(n) of a non-negative integer, as the f-string formats it.
RECURSIVE NatToStr(_)
NatToStr(n) == IF n < 10 THEN <<DigitChars[n + 1]>>
               ELSE NatToStr(n \div 10) \o <<DigitChars[(n % 10) + 1]>>
IntToStr(n) == IF n < 0 THEN <<"-">> \o NatToStr(-n) ELSE NatToStr(n)

RECURSIVE DigitsVal(_)
DigitsVal(s) == IF Len(s) = 0 THEN 0
                ELSE 10 * DigitsVal(SubSeq(s, 1, Len(s) - 1)) + DigitVal(s[Len(s)])

AllDigits(s) == Len(s) > 0 /\ \A i \in 1..Len(s) : IsDigit(s[i])

\* int(text): an optional sign and decimal digits; anything else is ValueError.
\* (Whitespace and '_' are not in the alphabet of the model.)
PyInt(s) ==
    IF AllDigits(s) THEN [ok |-> TRUE, val |-> DigitsVal(s)]
    ELSE IF Len(s) > 1 /\ s[1] \in {"-", "+"} /\ AllDigits(Tail(s))
         THEN [ok |-> TRUE, val |-> IF s[1] = "-" THEN -DigitsVal(Tail(s)) ELSE DigitsVal(Tail(s))]
         ELSE [ok |-> FALSE, val |-> 0]

HasBar(s) == \E i \in 1..Len(s) : s[i] = Bar
FirstBar(s) == CHOOSE i \in 1..Len(s) : s[i] = Bar /\ \A j \in 1..(i - 1) : s[j] # Bar

\* text.split('|', maxsplit)
RECURSIVE Split(_, _)
Split(s, maxsplit) ==
    IF maxsplit = 0 \/ ~HasBar(s) THEN <<s>>
    ELSE <<SubSeq(s, 1, FirstBar(s) - 1)>>
         \o Split(SubSeq(s, FirstBar(s) + 1, Len(s)), maxsplit - 1)

\* text.split('|') with no limit: what a codec that forgot maxsplit would do.
RECURSIVE SplitAll(_, _)
SplitAll(s, maxsplit) ==
    IF ~HasBar(s) THEN <<s>>
    ELSE <<SubSeq(s, 1, FirstBar(s) - 1)>>
         \o SplitAll(SubSeq(s, FirstBar(s) + 1, Len(s)), maxsplit)

PacketParts(s, maxsplit) == Split(s, maxsplit)

\* bytes.decode() succeeds
ValidText(b) == \A i \in 1..Len(b) : b[i] # InvalidByte

\* create_packet(seq_num, message_type, payload)
create_packet_swapped(seq, message_type, payload) ==
    message_type \o <<Bar>> \o IntToStr(seq) \o <<Bar>> \o payload
create_packet(seq, message_type, payload) ==
    IntToStr(seq) \o <<Bar>> \o message_type \o <<Bar>> \o payload

NoneTriple == [kind |-> "none", seq |-> 0, type |-> <<>>, payload |-> <<>>]
Raised     == [kind |-> "raise", seq |-> 0, type |-> <<>>, payload |-> <<>>]

\* server.py parse_packet: no exception handler, so a decode error or a
\* ValueError of int() propagates to the caller.
server_parse_packet(packet_data) ==
    IF ~ValidText(packet_data) THEN Raised
    ELSE LET parts == PacketParts(packet_data, 2) IN
         IF Len(parts) < 3 THEN NoneTriple
         ELSE IF ~PyInt(parts[1]).ok THEN Raised
         ELSE [kind |-> "ok", seq |-> PyInt(parts[1]).val, type |-> parts[2],
               payload |-> parts[3]]

\* client.py parse_packet: the same, with both exceptions caught and turned
\* into (None, None, None).
client_parse_packet(packet_data) ==
    LET r == server_parse_packet(packet_data) IN
    IF r.kind = "raise" THEN NoneTriple ELSE r


---------------------------------------------------------------------------
\* Endpoints and datagrams.
ClientAddr == "c1"
OtherAddr  == "c2"
ServerAddr == "srv"
Endpoints  == {ClientAddr, OtherAddr}

\* tag is history only: the number of the user message a DATA datagram (or the
\* ACK answering it) belongs to; 0 for an injected datagram.
Datagram(src, dst, data, tag) == [src |-> src, dst |-> dst, data |-> data, tag |-> tag]
One(d) == SetToBag({d})
InFlightTo(dst) == {d \in BagToSet(net) : d.dst = dst}

\* The messages the user types (never 'exit', which leaves the loop); the
\* payload holds the delimiter.
Messages == {<<"h", Bar, "i">>}

---------------------------------------------------------------------------
\* client.py main(), lines 110-167.

\* client.py:124
ShouldSendAlways(rc, pst) == TRUE
ShouldSend(rc, pst) == rc = 0 \/ pst = "None"

\* client.py:137
IsMatchingAckAnySeq(p, seq) == p.kind = "ok" /\ p.type = ACK
IsMatchingAck(p, seq) == p.kind = "ok" /\ p.type = ACK /\ p.seq = seq

\* client.py:142 and the paths that leave seq_num alone
SeqAfterBumpAlways(seq, outcome) == seq + 1
SeqAfter(seq, outcome) == IF outcome = "ACKED" THEN seq + 1 ELSE seq

\* One pass from the top of `while retry_count <= max_retries` (line 121) to
\* the call of recvfrom (line 133), entered with retry_count = rc,
\* packet_sent_time = pst and the transport holding net0. sendok = FALSE is
\* sendto raising, which `except Exception` (line 161) turns into a break.
BeginIteration(rc, pst, msg, sentlog, tag, net0, sendok) ==
    IF ShouldSend(rc, pst)
    THEN IF sendok
         THEN /\ net' = net0 (+) One(Datagram(ClientAddr, ServerAddr,
                                              create_packet(seq_num, DATA, msg), tag))
              /\ c_sent' = Append(sentlog, create_packet(seq_num, DATA, msg))
              /\ packet_sent_time' = "set"
              /\ packets_sent' = packets_sent + 1
              /\ wait_elapsed' = 0
              /\ c_pc' = "recv"
              /\ c_outcome' = "PENDING"
         ELSE /\ net' = net0
              /\ c_sent' = sentlog
              /\ packet_sent_time' = pst
              /\ packets_sent' = packets_sent
              /\ wait_elapsed' = 0
              /\ c_pc' = "input"
              /\ c_outcome' = "ERROR"
    ELSE /\ net' = net0
         /\ c_sent' = sentlog
         /\ packet_sent_time' = pst
         /\ packets_sent' = packets_sent
         /\ wait_elapsed' = 0
         /\ c_pc' = "recv"
         /\ c_outcome' = "PENDING"

\* lines 113-130: a message is typed and the first pass of the loop runs.
ClientInput(msg, sendok) ==
    /\ c_pc = "input"
    /\ c_msg_no < MaxMessages
    /\ message' = msg
    /\ retry_count' = 0
    /\ c_rcvd' = 0
    /\ c_timeouts' = 0
    /\ c_msg_no' = c_msg_no + 1
    /\ c_prev' = [outcome |-> c_outcome, sent |-> c_sent]
    /\ c_waited' = 0
    /\ BeginIteration(0, "None", msg, <<>>, c_msg_no + 1, net, sendok)
    /\ UNCHANGED <<seq_num, retransmissions, acks_received, c_acked, injected>>
    /\ UNCHANGED <<serverVars, codecVars, proxyVars>>

\* lines 133-145: recvfrom returns a datagram.
ClientRecv(d, sendok) ==
    /\ c_pc = "recv"
    /\ d \in InFlightTo(ClientAddr)
    /\ c_rcvd' = c_rcvd + 1
    /\ IF IsMatchingAck(client_parse_packet(d.data), seq_num)
       THEN /\ acks_received' = acks_received + 1
            /\ seq_num' = SeqAfter(seq_num, "ACKED")
            /\ c_outcome' = "ACKED"
            /\ c_acked' = c_acked \cup {c_msg_no}
            /\ c_pc' = "input"
            /\ net' = net (-) One(d)
            /\ UNCHANGED <<packets_sent, packet_sent_time, wait_elapsed, c_sent>>
       ELSE /\ BeginIteration(retry_count, packet_sent_time, message, c_sent, c_msg_no,
                              net (-) One(d), sendok)
            /\ seq_num' = SeqAfter(seq_num, c_outcome')
            /\ UNCHANGED <<acks_received, c_acked>>
    /\ UNCHANGED <<message, retry_count, retransmissions, c_timeouts, c_msg_no, c_prev, c_waited,
                   injected>>
    /\ UNCHANGED <<serverVars, codecVars, proxyVars>>

\* lines 147-154: recvfrom raises socket.timeout.
ClientTimeout(sendok) ==
    /\ c_pc = "recv"
    /\ wait_elapsed = TimeoutTicks
    /\ retry_count' = retry_count + 1
    /\ retransmissions' = retransmissions + 1
    /\ c_timeouts' = c_timeouts + 1
    /\ IF retry_count + 1 > max_retries
       THEN /\ c_outcome' = "FAILED"
            /\ c_pc' = "input"
            /\ UNCHANGED <<net, packets_sent, packet_sent_time, wait_elapsed, c_sent>>
       ELSE BeginIteration(retry_count + 1, packet_sent_time, message, c_sent, c_msg_no,
                           net, sendok)
    /\ seq_num' = SeqAfter(seq_num, c_outcome')
    /\ UNCHANGED <<acks_received, message, c_rcvd, c_msg_no, c_acked, c_prev, c_waited, injected>>
    /\ UNCHANGED <<serverVars, codecVars, proxyVars>>

\* Time passes while recvfrom blocks.
Tick ==
    /\ c_pc = "recv"
    /\ wait_elapsed < TimeoutTicks
    /\ wait_elapsed' = wait_elapsed + 1
    /\ c_waited' = c_waited + 1
    /\ UNCHANGED <<c_pc, seq_num, packets_sent, retransmissions, acks_received, message,
                   retry_count, packet_sent_time, c_outcome, c_sent, c_rcvd, c_timeouts,
                   c_msg_no, c_acked, c_prev>>
    /\ UNCHANGED <<serverVars, netVars, codecVars, proxyVars>>

\* A client that counts a transport error as a timeout and waits again.
ClientRecvErrorRetries ==
    /\ c_pc = "recv"
    /\ c_outcome' = "ERROR"
    /\ c_pc' = "recv"
    /\ retry_count' = retry_count + 1
    /\ UNCHANGED <<seq_num, packets_sent, retransmissions, acks_received, message,
                   packet_sent_time, wait_elapsed, c_sent, c_rcvd, c_timeouts, c_msg_no,
                   c_acked, c_prev, c_waited>>
    /\ UNCHANGED <<serverVars, netVars, codecVars, proxyVars>>

\* lines 161-163: recvfrom raises an error that is not socket.timeout.
ClientRecvError ==
    /\ c_pc = "recv"
    /\ c_outcome' = "ERROR"
    /\ c_pc' = "input"
    /\ seq_num' = SeqAfter(seq_num, "ERROR")
    /\ UNCHANGED <<packets_sent, retransmissions, acks_received, message, retry_count,
                   packet_sent_time, wait_elapsed, c_sent, c_rcvd, c_timeouts, c_msg_no,
                   c_acked, c_prev, c_waited>>
    /\ UNCHANGED <<serverVars, netVars, codecVars, proxyVars>>

\* lines 114-115 ('exit' typed) and 165-167 (KeyboardInterrupt).
ClientExit ==
    /\ c_pc \in {"input", "recv"}
    /\ c_pc' = "exited"
    /\ UNCHANGED <<seq_num, packets_sent, retransmissions, acks_received, message,
                   retry_count, packet_sent_time, wait_elapsed, c_outcome, c_sent, c_rcvd,
                   c_timeouts, c_msg_no, c_acked, c_prev, c_waited>>
    /\ UNCHANGED <<serverVars, netVars, codecVars, proxyVars>>

InitClient ==
    /\ c_pc = "input"
    /\ seq_num = 0
    /\ packets_sent = 0
    /\ retransmissions = 0
    /\ acks_received = 0
    /\ message = <<>>
    /\ retry_count = 0
    /\ packet_sent_time = "None"
    /\ wait_elapsed = 0
    /\ c_outcome = "NONE"
    /\ c_sent = <<>>
    /\ c_rcvd = 0
    /\ c_timeouts = 0
    /\ c_msg_no = 0
    /\ c_acked = {}
    /\ c_prev = [outcome |-> "NONE", sent |-> <<>>]
    /\ c_waited = 0

---------------------------------------------------------------------------
\* server.py main(), lines 59-119.

HasRecord(records, key) == key \in DOMAIN records

\* server.py:78-83
IsNewPacketOrEqual(records, key, seq) == ~HasRecord(records, key) \/ seq >= records[key]
IsNewPacket(records, key, seq) == ~HasRecord(records, key) \/ seq > records[key]

\* server.py:80 and 88: the record after the packet is classified
StoreAlways(records, key, seq, is_new) ==
    [k \in DOMAIN records \cup {key} |-> IF k = key THEN seq ELSE records[k]]
StoreSeqNext(records, key, seq, is_new) ==
    IF is_new
    THEN [k \in DOMAIN records \cup {key} |-> IF k = key THEN seq + 1 ELSE records[k]]
    ELSE records
StoreSeqShared(records, key, seq, is_new) ==
    IF is_new THEN [k \in DOMAIN records \cup {key} |-> seq] ELSE records
StoreSeq(records, key, seq, is_new) ==
    IF is_new
    THEN [k \in DOMAIN records \cup {key} |-> IF k = key THEN seq ELSE records[k]]
    ELSE records

\* server.py:96-98: the ACK goes out whether the packet is new or a duplicate
AckRepliesNewOnly(d, seq, is_new) ==
    IF is_new THEN One(Datagram(ServerAddr, d.src, create_packet(seq, ACK, <<>>), d.tag))
    ELSE EmptyBag
AckReplies(d, seq, is_new) ==
    One(Datagram(ServerAddr, d.src, create_packet(seq, ACK, <<>>), d.tag))

\* server.py:85-93: what a decodable packet adds to the two counters
CountedBoth(is_new) == [unique |-> 1, duplicate |-> IF is_new THEN 0 ELSE 1]
Counted(is_new) ==
    [unique |-> IF is_new THEN 1 ELSE 0, duplicate |-> IF is_new THEN 0 ELSE 1]

\* History entry: the packet's sequence number, its classification, the stored
\* value before it (<<>> when the endpoint had no record) and the ACKs sent.
HistEntry(seq, is_new, before, acks) ==
    [seq |-> seq, class |-> IF is_new THEN "new" ELSE "duplicate", before |-> before,
     acks |-> acks]

\* lines 64-99: recvfrom returns a datagram and the loop body runs.
ServerRecv(d) ==
    /\ s_state = "running"
    /\ d \in InFlightTo(ServerAddr)
    /\ packets_received' = packets_received + 1
    /\ LET p == server_parse_packet(d.data) IN
       IF p.kind = "raise"
       THEN \* the exception leaves the while loop: except Exception, line 110
            /\ s_state' = "crashed"
            /\ s_last' = [d |-> d, class |-> "malformed"]
            /\ s_malformed' = s_malformed + 1
            /\ net' = net (-) One(d)
            /\ UNCHANGED <<client_seq_nums, unique_packets_received, duplicate_packets,
                           acks_sent, s_hist, s_new_tags>>
       ELSE IF p.kind = "none"
       THEN \* line 71-73: continue
            /\ s_last' = [d |-> d, class |-> "malformed"]
            /\ s_malformed' = s_malformed + 1
            /\ net' = net (-) One(d)
            /\ UNCHANGED <<s_state, client_seq_nums, unique_packets_received,
                           duplicate_packets, acks_sent, s_hist, s_new_tags>>
       ELSE LET key    == d.src
                is_new == IsNewPacket(client_seq_nums, key, p.seq)
                before == IF HasRecord(client_seq_nums, key)
                          THEN <<client_seq_nums[key]>> ELSE <<>>
                acks   == AckReplies(d, p.seq, is_new)
            IN  /\ client_seq_nums' = StoreSeq(client_seq_nums, key, p.seq, is_new)
                /\ unique_packets_received' = unique_packets_received + Counted(is_new).unique
                /\ duplicate_packets' = duplicate_packets + Counted(is_new).duplicate
                /\ net' = (net (-) One(d)) (+) acks
                /\ acks_sent' = acks_sent + 1
                /\ s_last' = [d |-> d, class |-> IF is_new THEN "new" ELSE "duplicate"]
                /\ s_hist' = [s_hist EXCEPT ![key] =
                                 Append(@, HistEntry(p.seq, is_new, before, acks))]
                /\ s_new_tags' = IF is_new THEN s_new_tags \cup {d.tag} ELSE s_new_tags
                /\ UNCHANGED <<s_state, s_malformed>>
    /\ UNCHANGED injected
    /\ UNCHANGED <<clientVars, codecVars, proxyVars>>

\* lines 27-33 and 60: 'exit' typed at the server's console.
ServerExit ==
    /\ s_state = "running"
    /\ s_state' = "exited"
    /\ UNCHANGED <<client_seq_nums, packets_received, unique_packets_received,
                   duplicate_packets, acks_sent, s_last, s_hist, s_new_tags, s_malformed>>
    /\ UNCHANGED <<clientVars, netVars, codecVars, proxyVars>>

NoDatagram == Datagram("", "", <<>>, 0)

InitServer ==
    /\ s_state = "running"
    /\ client_seq_nums = <<>>
    /\ packets_received = 0
    /\ unique_packets_received = 0
    /\ duplicate_packets = 0
    /\ acks_sent = 0
    /\ s_last = [d |-> NoDatagram, class |-> "none"]
    /\ s_hist = [e \in Endpoints |-> <<>>]
    /\ s_new_tags = {}
    /\ s_malformed = 0

---------------------------------------------------------------------------
\* The datagram transport: it may lose a datagram, and delivers the others in
\* any order after any delay.

NetDrop(d) ==
    /\ d \in BagToSet(net)
    /\ net' = net (-) One(d)
    /\ UNCHANGED injected
    /\ UNCHANGED <<clientVars, serverVars, codecVars, proxyVars>>

\* Datagrams an arbitrary peer may send to the server.
ServerInputs ==
    {create_packet(n, DATA, <<"h">>) : n \in 0..MaxSeqIn}
    \cup {create_packet(0, ACK, <<>>),
          <<"h">>,                       \* no delimiter
          <<"0", Bar, "h">>,             \* two fields
          <<"x", Bar, "D", Bar, "h">>,   \* sequence field not an integer
          <<InvalidByte>>}               \* not valid text

\* Datagrams that may reach the client's socket.
ClientInputs ==
    {create_packet(n, ACK, <<>>) : n \in 0..MaxSeqIn}
    \cup {create_packet(0, DATA, <<"h">>),
          <<"h">>,
          <<"x", Bar, "A", "C", "K", Bar>>,
          <<InvalidByte>>}

\* A peer's datagram reaches the server's socket (one at a time: the order of
\* arrival is the order of injection).
InjectToServer(src, data) ==
    /\ injected < MaxInjectServer
    /\ InFlightTo(ServerAddr) = {}
    /\ injected' = injected + 1
    /\ net' = net (+) One(Datagram(src, ServerAddr, data, 0))
    /\ UNCHANGED <<clientVars, serverVars, codecVars, proxyVars>>

\* A datagram reaches the client's socket (one at a time).
InjectToClient(data) ==
    /\ injected < MaxInjectClient
    /\ InFlightTo(ClientAddr) = {}
    /\ injected' = injected + 1
    /\ net' = net (+) One(Datagram(ServerAddr, ClientAddr, data, 0))
    /\ UNCHANGED <<clientVars, serverVars, codecVars, proxyVars>>

InitNet == net = EmptyBag /\ injected = 0

---------------------------------------------------------------------------
\* Codec harness: encode a packet, then decode the bytes with both parsers.

CodecAlphabet == {"a", "0", Bar}
RECURSIVE TextsUpTo(_)
TextsUpTo(n) == IF n = 0 THEN {<<>>}
                ELSE TextsUpTo(n - 1)
                     \cup {Append(t, c) : t \in {u \in TextsUpTo(n - 1) : Len(u) = n - 1},
                                          c \in CodecAlphabet}

CodecEncode ==
    /\ k_pc = "start"
    /\ k_wire' = create_packet(k_in.seq, k_in.type, k_in.payload)
    /\ k_pc' = "encoded"
    /\ UNCHANGED <<k_in, k_out_client, k_out_server>>
    /\ UNCHANGED <<clientVars, serverVars, netVars, proxyVars>>

CodecDecode ==
    /\ k_pc = "encoded"
    /\ k_out_client' = client_parse_packet(k_wire)
    /\ k_out_server' = server_parse_packet(k_wire)
    /\ k_pc' = "decoded"
    /\ UNCHANGED <<k_in, k_wire>>
    /\ UNCHANGED <<clientVars, serverVars, netVars, proxyVars>>

InitCodecIdle ==
    /\ k_pc = "idle"
    /\ k_in = [seq |-> 0, type |-> DATA, payload |-> <<>>]
    /\ k_wire = <<>>
    /\ k_out_client = NoneTriple
    /\ k_out_server = NoneTriple

InitCodec ==
    /\ k_pc = "start"
    /\ k_in \in [seq : 0..MaxCodecSeq, type : {DATA, ACK}, payload : TextsUpTo(MaxPayload)]
    /\ k_wire = <<>>
    /\ k_out_client = NoneTriple
    /\ k_out_server = NoneTriple

---------------------------------------------------------------------------
\* proxy.py: the shaping pipeline and the delayed-delivery scheduler.
\* Probabilities are kept in percent (the code keeps percent / 100.0) and
\* times in milliseconds (the code keeps ms / 1000.0).

Addr(ip, port) == [ip |-> ip, port |-> port]
\* proxy.py:445, (args.server_ip, args.server_port)
server_addr == Addr("10.0.0.2", 5000)
NoAddr == Addr("", 0)

\* proxy.py:143-151: every exception is caught.
proxy_parse_packet(packet_data) ==
    LET r == server_parse_packet(packet_data) IN
    IF r.kind = "raise" THEN NoneTriple ELSE r

\* What recvfrom may return at the proxy, (data, addr): an ACK or bytes that
\* are not UTF-8 from the server, a DATA packet from a peer on the server's
\* host, bytes that are not UTF-8 from a peer on another host.
ProxyArrivals ==
    {<<create_packet(0, ACK, <<>>), server_addr>>,
     <<<<InvalidByte>>, server_addr>>,
     <<create_packet(0, DATA, <<"h">>), Addr("10.0.0.2", 6000)>>,
     <<<<InvalidByte>>, Addr("10.0.0.1", 5000)>>}

\* random.random() is in [0, 1): in percent, a value in [0, 100).
RandomDraws == {0, 50, 99}

\* proxy.py:538
IsServerOriginIpOnly(addr) == addr.ip = server_addr.ip
IsServerOrigin(addr) == addr.ip = server_addr.ip /\ addr.port = server_addr.port

\* proxy.py:153-155
should_drop_packet_inclusive(r, drop_probability) == r <= drop_probability
should_drop_packet_above(r, drop_probability) == r > 100 - drop_probability
should_drop_packet(r, drop_probability) == r < drop_probability

\* proxy.py:157-159
should_delay_packet(r, delay_probability) == r < delay_probability

\* proxy.py:161-166: the delays get_random_delay may return; random.uniform
\* returns a value between its arguments, here on a grid of TickMs.
get_random_delay_fixed(delay_range) == {100}
get_random_delay(delay_range) ==
    IF delay_range[1] = delay_range[2] THEN {delay_range[1]}
    ELSE {delay_range[1], delay_range[2]}
         \cup {k * TickMs : k \in {j \in 0..MaxGrid : delay_range[1] < j * TickMs
                                                     /\ j * TickMs < delay_range[2]}}

DropKey(dir)  == IF dir = "s2c" THEN "server_drop" ELSE "client_drop"
DelayKey(dir) == IF dir = "s2c" THEN "server_delay" ELSE "client_delay"
RangeKey(dir) == IF dir = "s2c" THEN "server_delay_time_range" ELSE "client_delay_time_range"
PacketsKey(dir) == IF dir = "s2c" THEN "server_to_client_packets" ELSE "client_to_server_packets"
DroppedKey(dir) == IF dir = "s2c" THEN "server_to_client_dropped" ELSE "client_to_server_dropped"
DelayedKey(dir) == IF dir = "s2c" THEN "server_to_client_delayed" ELSE "client_to_server_delayed"

\* A proxy that answers the client it heard first.
TargetFirstClient(dir) ==
    IF dir = "s2c"
    THEN LET S == {i \in 1..Len(p_hist) : p_hist[i].dir = "c2s"}
         IN  p_hist[CHOOSE i \in S : \A j \in S : i <= j].addr
    ELSE server_addr

\* The destination of a datagram of direction dir: lines 566/575 and 607/616.
Target(dir) == IF dir = "s2c" THEN latest_client ELSE server_addr

\* History of the datagram being processed (the last of p_hist).
\* cfg0 is the drop and delay probability of the direction when the datagram
\* arrived; drop, delay and range hold the value each decision read; t0 is the
\* time read at line 563/604 and drawn the delay drawn; target is where the
\* datagram is to go.
Hist(n, addr, data, dir, known) ==
    [n |-> n, addr |-> addr, data |-> data, dir |-> dir, known |-> known,
     target |-> IF dir = "c2s" THEN server_addr ELSE latest_client,
     cfg0 |-> <<config[DropKey(dir)], config[DelayKey(dir)]>>,
     drop |-> <<>>, delay |-> <<>>, range |-> <<>>, t0 |-> 0, drawn |-> 0,
     outcome |-> "pending"]
SetLast(h, f, v) == [h EXCEPT ![Len(h)] = [@ EXCEPT ![f] = v]]
Done(h, outcome) == SetLast(h, "outcome", outcome)

\* A receive loop that leaves alone what parse_packet cannot decode.
ProxyRecvSkipUnparseable(addr, data) ==
    /\ p_pc = "recv"
    /\ metrics.total_packets < MaxArrivals
    /\ LET dir   == IF IsServerOrigin(addr) THEN "s2c" ELSE "c2s"
           known == dir = "c2s" \/ latest_client # NoAddr
           go    == known /\ proxy_parse_packet(data) # NoneTriple
       IN  /\ metrics' = [metrics EXCEPT !.total_packets = @ + 1,
                                          ![PacketsKey(dir)] = @ + 1]
           /\ latest_client' = IF dir = "c2s" THEN addr ELSE latest_client
           /\ p_cur' = [addr |-> addr, data |-> data, dir |-> dir]
           /\ p_hist' = Append(p_hist,
                  IF go THEN Hist(Len(p_hist) + 1, addr, data, dir, known)
                  ELSE [Hist(Len(p_hist) + 1, addr, data, dir, known)
                            EXCEPT !.outcome = "noclient"])
           /\ p_pc' = IF go THEN "drop" ELSE "recv"
    /\ UNCHANGED <<config, delayed_packets, p_sent, schedVars, now, conVars>>
    /\ UNCHANGED <<clientVars, serverVars, netVars, codecVars>>

\* proxy.py:529-555 and 578-595: recvfrom returns, the datagram is counted
\* and classified, and the client pointer is updated (line 594).
ProxyRecv(addr, data) ==
    /\ p_pc = "recv"
    /\ metrics.total_packets < MaxArrivals
    /\ LET dir   == IF IsServerOrigin(addr) THEN "s2c" ELSE "c2s"
           known == dir = "c2s" \/ latest_client # NoAddr
       IN  /\ metrics' = [metrics EXCEPT !.total_packets = @ + 1,
                                          ![PacketsKey(dir)] = @ + 1]
           /\ latest_client' = IF dir = "c2s" THEN addr ELSE latest_client
           /\ p_cur' = [addr |-> addr, data |-> data, dir |-> dir]
           /\ p_hist' = Append(p_hist,
                  IF known THEN Hist(Len(p_hist) + 1, addr, data, dir, known)
                  ELSE [Hist(Len(p_hist) + 1, addr, data, dir, known)
                            EXCEPT !.outcome = "noclient"])
           \* line 555: `if latest_client:`, else "No client to forward to"
           /\ p_pc' = IF known THEN "drop" ELSE "recv"
    /\ UNCHANGED <<config, delayed_packets, p_sent, schedVars, now, conVars>>
    /\ UNCHANGED <<clientVars, serverVars, netVars, codecVars>>

\* A pipeline that goes on to the delay decision after a drop.
ProxyDecideDropThenDelay(r) ==
    /\ p_pc = "drop"
    /\ IF should_drop_packet(r, config[DropKey(p_cur.dir)])
       THEN /\ metrics' = [metrics EXCEPT ![DroppedKey(p_cur.dir)] = @ + 1]
            /\ p_hist' = SetLast(p_hist, "drop", <<config[DropKey(p_cur.dir)]>>)
            /\ p_pc' = "delay"
       ELSE /\ p_hist' = SetLast(p_hist, "drop", <<config[DropKey(p_cur.dir)]>>)
            /\ p_pc' = "delay"
            /\ UNCHANGED metrics
    /\ UNCHANGED <<config, latest_client, delayed_packets, p_cur, p_sent, schedVars, now,
                   conVars>>
    /\ UNCHANGED <<clientVars, serverVars, netVars, codecVars>>

\* lines 557-559 and 598-600: the drop decision, with the drop probability
\* read now.
ProxyDecideDrop(r) ==
    /\ p_pc = "drop"
    /\ IF should_drop_packet(r, config[DropKey(p_cur.dir)])
       THEN /\ metrics' = [metrics EXCEPT ![DroppedKey(p_cur.dir)] = @ + 1]
            /\ p_hist' = Done(SetLast(p_hist, "drop", <<config[DropKey(p_cur.dir)]>>), "drop")
            /\ p_pc' = "recv"
       ELSE /\ p_hist' = SetLast(p_hist, "drop", <<config[DropKey(p_cur.dir)]>>)
            /\ p_pc' = "delay"
            /\ UNCHANGED metrics
    /\ UNCHANGED <<config, latest_client, delayed_packets, p_cur, p_sent, schedVars, now,
                   conVars>>
    /\ UNCHANGED <<clientVars, serverVars, netVars, codecVars>>

\* A sendto of the proxy: by the receive loop or by the scheduler, at time
\* `at`; release is the send_time of the queue entry (the time of sending for
\* the receive loop).
SendRecord(by, n, addr, data, release) ==
    [by |-> by, n |-> n, addr |-> addr, data |-> data, at |-> now, release |-> release]

\* lines 560 and 601: the delay decision, with the delay probability read
\* now; lines 572-575 and 613-616: otherwise the datagram is forwarded.
ProxyDecideDelay(r) ==
    /\ p_pc = "delay"
    /\ IF should_delay_packet(r, config[DelayKey(p_cur.dir)])
       THEN /\ p_hist' = SetLast(p_hist, "delay", <<config[DelayKey(p_cur.dir)]>>)
            /\ p_pc' = "enqueue"
            /\ UNCHANGED p_sent
       ELSE /\ p_sent' = Append(p_sent, SendRecord("loop", Len(p_hist), Target(p_cur.dir),
                                                   p_cur.data, now))
            /\ p_hist' = Done(SetLast(p_hist, "delay", <<config[DelayKey(p_cur.dir)]>>), "forward")
            /\ p_pc' = "recv"
    /\ UNCHANGED <<config, latest_client, delayed_packets, metrics, p_cur, schedVars, now,
                   conVars>>
    /\ UNCHANGED <<clientVars, serverVars, netVars, codecVars>>

\* lines 575 and 616, sendto raises: the exception leaves `while True` for
\* `except Exception` at line 658, which is outside the loop; main() prints
\* the error, closes the socket and returns.
ProxyForwardError(r) ==
    /\ p_pc = "delay"
    /\ ~should_delay_packet(r, config[DelayKey(p_cur.dir)])
    /\ p_hist' = Done(SetLast(p_hist, "delay", <<config[DelayKey(p_cur.dir)]>>), "senderror")
    /\ p_pc' = "stopped"
    /\ UNCHANGED <<config, latest_client, delayed_packets, metrics, p_cur, p_sent, schedVars,
                   now, conVars>>
    /\ UNCHANGED <<clientVars, serverVars, netVars, codecVars>>

\* The queue entry of line 566/607, (send_time, sock, addr, data), with the
\* history of where it came from.
Entry(send_time, addr, data, n) ==
    [send_time |-> send_time, addr |-> addr, data |-> data, n |-> n]

\* proxy.py:451: queue.Queue() has no maxsize, so that put() never finds the
\* queue full and never waits.
QueueFullAtOne(q) == Len(q) >= 1
QueueFull(q) == FALSE

\* lines 561-571 and 602-612: the delay is drawn from the range read now and
\* the datagram is queued.
ProxyEnqueue ==
    /\ p_pc = "enqueue"
    /\ ~QueueFull(delayed_packets)
    /\ \E delay \in get_random_delay(config[RangeKey(p_cur.dir)]) :
           /\ delayed_packets' = Append(delayed_packets,
                  Entry(now + delay, Target(p_cur.dir), p_cur.data, Len(p_hist)))
           /\ p_hist' = Done(SetLast(SetLast(SetLast(p_hist,
                                 "range", config[RangeKey(p_cur.dir)]),
                                 "t0", now), "drawn", delay), "delay")
    /\ metrics' = [metrics EXCEPT ![DelayedKey(p_cur.dir)] = @ + 1]
    /\ p_pc' = "recv"
    /\ UNCHANGED <<config, latest_client, p_cur, p_sent, schedVars, now, conVars>>
    /\ UNCHANGED <<clientVars, serverVars, netVars, codecVars>>

\* proxy.py:497-502: the time at which the scheduler goes on, having slept
\* max(0, send_time - now).
WakeTimeNoSleep(t, send_time) == t
WakeTime(t, send_time) == t + (IF send_time - t > 0 THEN send_time - t ELSE 0)

\* queue.Queue is first in, first out: the position in the queue of the
\* entry that get() returns.
QueueGetEarliest(q) ==
    CHOOSE i \in 1..Len(q) :
        \A j \in 1..Len(q) : q[i].send_time < q[j].send_time
                               \/ (q[i].send_time = q[j].send_time /\ i <= j)
QueueGet(q) == 1

Without(q, i) == SubSeq(q, 1, i - 1) \o SubSeq(q, i + 1, Len(q))

\* lines 492-499: the scheduler takes an entry and reads the clock.
SchedGet ==
    /\ d_pc = "get"
    /\ delayed_packets # <<>>
    /\ d_cur' = delayed_packets[QueueGet(delayed_packets)]
    /\ delayed_packets' = Without(delayed_packets, QueueGet(delayed_packets))
    /\ d_wake' = WakeTime(now, delayed_packets[QueueGet(delayed_packets)].send_time)
    /\ d_pc' = "sleep"
    /\ UNCHANGED <<config, latest_client, metrics, p_pc, p_cur, p_hist, p_sent, now, conVars>>
    /\ UNCHANGED <<clientVars, serverVars, netVars, codecVars>>

\* A scheduler that sends a client-bound entry to the client endpoint known
\* when the entry is sent.
SchedSendToPointer ==
    /\ d_pc = "sleep"
    /\ now >= d_wake
    /\ p_sent' = Append(p_sent, SendRecord("sched", d_cur.n,
                             IF d_cur.addr = server_addr THEN server_addr ELSE latest_client,
                             d_cur.data, d_cur.send_time))
    /\ d_pc' = "get"
    /\ UNCHANGED <<config, latest_client, delayed_packets, metrics, p_pc, p_cur, p_hist,
                   d_cur, d_wake, now, conVars>>
    /\ UNCHANGED <<clientVars, serverVars, netVars, codecVars>>

\* lines 501-513: the sleep is over and the entry is sent.
SchedSend ==
    /\ d_pc = "sleep"
    /\ now >= d_wake
    /\ p_sent' = Append(p_sent, SendRecord("sched", d_cur.n, d_cur.addr, d_cur.data,
                                                d_cur.send_time))
    /\ d_pc' = "get"
    /\ UNCHANGED <<config, latest_client, delayed_packets, metrics, p_pc, p_cur, p_hist,
                   d_cur, d_wake, now, conVars>>
    /\ UNCHANGED <<clientVars, serverVars, netVars, codecVars>>

\* line 509, sendto raises: `except Exception` at line 514 is inside the
\* scheduler's `while True`; the error is printed, the entry is gone and the
\* scheduler takes the next one.
SchedSendError ==
    /\ d_pc = "sleep"
    /\ now >= d_wake
    /\ d_pc' = "get"
    /\ UNCHANGED <<config, pipeVars, d_cur, d_wake, now, conVars>>
    /\ UNCHANGED <<clientVars, serverVars, netVars, codecVars>>

\* Time passes.
ProxyTick ==
    /\ now + TickMs <= MaxTicks * TickMs
    /\ now' = now + TickMs
    /\ UNCHANGED <<config, pipeVars, schedVars, conVars>>
    /\ UNCHANGED <<clientVars, serverVars, netVars, codecVars>>

\* lines 501-502: time passes while the scheduler is in time.sleep, which
\* returns once wait_time has gone by.
SleepTick ==
    /\ d_pc = "sleep"
    /\ now < d_wake
    /\ now' = now + TickMs
    /\ UNCHANGED <<config, pipeVars, schedVars, conVars>>
    /\ UNCHANGED <<clientVars, serverVars, netVars, codecVars>>

NoEntry == Entry(0, NoAddr, <<>>, 0)

\* proxy.py:28-39 and 430-438: the policy the command line gives by default.
DefaultConfig ==
    [client_drop |-> 0, server_drop |-> 0, client_delay |-> 0, server_delay |-> 0,
     client_delay_time_range |-> <<100, 100>>, server_delay_time_range |-> <<100, 100>>]

ZeroMetrics ==
    [client_to_server_packets |-> 0, server_to_client_packets |-> 0,
     client_to_server_dropped |-> 0, server_to_client_dropped |-> 0,
     client_to_server_delayed |-> 0, server_to_client_delayed |-> 0,
     total_packets |-> 0]

InitPipe ==
    /\ latest_client = NoAddr
    /\ delayed_packets = <<>>
    /\ metrics = ZeroMetrics
    /\ p_pc = "recv"
    /\ p_cur = [addr |-> NoAddr, data |-> <<>>, dir |-> "c2s"]
    /\ p_hist = <<>>
    /\ p_sent = <<>>
    /\ d_pc = "get"
    /\ d_cur = NoEntry
    /\ d_wake = 0
    /\ now = 0

---------------------------------------------------------------------------
\* proxy.py:188-424: the console.  A command line is given as the parts
\* command.split(' ') yields: the verb, the second part and the third part
\* (the value, a text), with n the number of parts.  lower() is not modelled:
\* the commands are in lower case.

Cmd(verb, arg, value, n) == [verb |-> verb, arg |-> arg, value |-> value, n |-> n]

\* value.split('-')
RECURSIVE SplitOn(_, _)
SplitOn(s, sep) ==
    IF ~(\E i \in 1..Len(s) : s[i] = sep) THEN <<s>>
    ELSE LET i == CHOOSE k \in 1..Len(s) : s[k] = sep /\ \A j \in 1..(k - 1) : s[j] # sep
         IN  <<SubSeq(s, 1, i - 1)>> \o SplitOn(SubSeq(s, i + 1, Len(s)), sep)

\* float(value) on texts of digits, signs and letters: a decimal integer with
\* an optional sign, ValueError otherwise.
PyFloat(s) == PyInt(s)

Write(key, val) == [key |-> key, val |-> val]

\* lines 312, 323, 334, 345: `0 <= x <= 100`
ProbabilityOkNoUpper(x) == 0 <= x
ProbabilityOk(x) == 0 <= x /\ x <= 100

\* lines 309-351
SetProbability(key, value) ==
    LET x == PyFloat(value) IN
    IF x.ok /\ ProbabilityOk(x.val) THEN <<Write(key, x.val)>> ELSE <<>>

\* lines 353-375
SetDelayTime(key, value) ==
    LET x == PyFloat(value) IN
    IF x.ok /\ x.val >= 0 THEN <<Write(key, <<x.val, x.val>>)>> ELSE <<>>

\* A console that does not compare the two ends of a range.
SetDelayRangeNoOrder(key, value) ==
    LET min_max == SplitOn(value, "-") IN
    IF Len(min_max) # 2 THEN <<>>
    ELSE LET min_ms == PyFloat(min_max[1])
             max_ms == PyFloat(min_max[2])
         IN  IF min_ms.ok /\ max_ms.ok /\ min_ms.val >= 0
             THEN <<Write(key, <<min_ms.val, max_ms.val>>)>>
             ELSE <<>>

\* lines 377-411
SetDelayRange(key, value) ==
    LET min_max == SplitOn(value, "-") IN
    IF Len(min_max) # 2 THEN <<>>
    ELSE LET min_ms == PyFloat(min_max[1])
             max_ms == PyFloat(min_max[2])
         IN  IF min_ms.ok /\ max_ms.ok /\ min_ms.val >= 0 /\ max_ms.val >= min_ms.val
             THEN <<Write(key, <<min_ms.val, max_ms.val>>)>>
             ELSE <<>>

\* lines 300-414
SetWrites(cmd) ==
    IF cmd.n < 3 THEN <<>>
    ELSE CASE cmd.arg = "client-drop"  -> SetProbability("client_drop", cmd.value)
           [] cmd.arg = "server-drop"  -> SetProbability("server_drop", cmd.value)
           [] cmd.arg = "client-delay" -> SetProbability("client_delay", cmd.value)
           [] cmd.arg = "server-delay" -> SetProbability("server_delay", cmd.value)
           [] cmd.arg = "client-delay-time" ->
                  SetDelayTime("client_delay_time_range", cmd.value)
           [] cmd.arg = "server-delay-time" ->
                  SetDelayTime("server_delay_time_range", cmd.value)
           [] cmd.arg = "client-delay-range" ->
                  SetDelayRange("client_delay_time_range", cmd.value)
           [] cmd.arg = "server-delay-range" ->
                  SetDelayRange("server_delay_time_range", cmd.value)
           [] OTHER -> <<>>

\* The six assignments of a preset, in the order of the code.
SixWrites(drop, delay, delay_range) ==
    <<Write("client_drop", drop), Write("server_drop", drop),
      Write("client_delay", delay), Write("server_delay", delay),
      Write("client_delay_time_range", delay_range),
      Write("server_delay_time_range", delay_range)>>

\* lines 222-229
ResetWrites == SixWrites(0, 0, <<100, 100>>)

\* lines 240-298
PresetWritesMildWrong(preset_name) ==
    CASE preset_name = "perfect"   -> SixWrites(0, 0, <<100, 100>>)
      [] preset_name = "mild"      -> SixWrites(10, 20, <<100, 300>>)
      [] preset_name = "moderate"  -> SixWrites(25, 40, <<100, 300>>)
      [] preset_name = "severe"    -> SixWrites(50, 60, <<200, 500>>)
      [] preset_name = "chaotic"   -> SixWrites(70, 80, <<300, 1000>>)
      [] preset_name = "blackhole" -> SixWrites(100, 0, <<100, 100>>)
      [] OTHER -> <<>>

PresetWrites(preset_name) ==
    CASE preset_name = "perfect"   -> SixWrites(0, 0, <<100, 100>>)
      [] preset_name = "mild"      -> SixWrites(10, 20, <<100, 100>>)
      [] preset_name = "moderate"  -> SixWrites(25, 40, <<100, 300>>)
      [] preset_name = "severe"    -> SixWrites(50, 60, <<200, 500>>)
      [] preset_name = "chaotic"   -> SixWrites(70, 80, <<300, 1000>>)
      [] preset_name = "blackhole" -> SixWrites(100, 0, <<100, 100>>)
      [] OTHER -> <<>>

\* lines 197-418: the assignments a command makes to the policy.  `preset`
\* and `set` are recognised by startswith('preset ') and startswith('set '),
\* that is with at least two parts.
CommandWrites(cmd) ==
    CASE cmd.verb = "reset" /\ cmd.n = 1 -> ResetWrites
      [] cmd.verb = "preset" /\ cmd.n >= 2 -> PresetWrites(cmd.arg)
      [] cmd.verb = "set" /\ cmd.n >= 2 -> SetWrites(cmd)
      [] OTHER -> <<>>

\* lines 197-199
IsExit(cmd) == cmd.verb \in {"exit", "quit"} /\ cmd.n = 1

\* lines 193-195: input() returns a command, which is carried out up to its
\* first assignment to the policy.
ConsoleCommand(cmd) ==
    /\ con_pc = "input"
    /\ con_count < MaxCommands
    /\ con_count' = con_count + 1
    /\ con_last' = [cmd |-> cmd, before |-> config]
    /\ con_writes' = IF IsExit(cmd) THEN <<>> ELSE CommandWrites(cmd)
    /\ con_pc' = IF IsExit(cmd) THEN "exited"
                 ELSE IF CommandWrites(cmd) = <<>> THEN "input" ELSE "writing"
    /\ UNCHANGED <<config, pipeVars, schedVars, now>>
    /\ UNCHANGED <<clientVars, serverVars, netVars, codecVars>>

\* A console that assigns the two ends of a delay range one after the other.
ConsoleWriteByHalves ==
    /\ con_pc = "writing"
    /\ LET w    == Head(con_writes)
           half == /\ w.key \in {"client_delay_time_range", "server_delay_time_range"}
                   /\ config[w.key][1] # w.val[1]
       IN  /\ config' = [config EXCEPT ![w.key] = IF half THEN <<w.val[1], @[2]>> ELSE w.val]
           /\ con_writes' = IF half THEN con_writes ELSE Tail(con_writes)
           /\ con_pc' = IF ~half /\ Tail(con_writes) = <<>> THEN "input" ELSE "writing"
    /\ UNCHANGED <<con_count, con_last, pipeVars, schedVars, now>>
    /\ UNCHANGED <<clientVars, serverVars, netVars, codecVars>>

\* One assignment config[key] = value of the command being carried out.
ConsoleWrite ==
    /\ con_pc = "writing"
    /\ config' = [config EXCEPT ![Head(con_writes).key] = Head(con_writes).val]
    /\ con_writes' = Tail(con_writes)
    /\ con_pc' = IF Tail(con_writes) = <<>> THEN "input" ELSE "writing"
    /\ UNCHANGED <<con_count, con_last, pipeVars, schedVars, now>>
    /\ UNCHANGED <<clientVars, serverVars, netVars, codecVars>>

NoCmd == Cmd("", "", <<>>, 0)

InitConsole ==
    /\ con_pc = "input"
    /\ con_writes = <<>>
    /\ con_count = 0
    /\ con_last = [cmd |-> NoCmd, before |-> DefaultConfig]

\* The proxy after main() has set it up, with the default policy.
InitProxy == config = DefaultConfig /\ InitPipe /\ InitConsole

\* Values typed after `set <param>`: probabilities, delay times and ranges.
ProbabilityTexts ==
    {<<"0">>, <<"5", "0">>, <<"1", "0", "0">>, <<"1", "0", "1">>, <<"-", "5">>, <<"x">>}
DelayTimeTexts == {<<"0">>, <<"2", "0", "0">>, <<"-", "5">>, <<"x">>}
RangeTexts ==
    {<<"1", "0", "0", "-", "3", "0", "0">>, <<"3", "0", "0", "-", "1", "0", "0">>,
     <<"1", "0", "0", "-">>, <<"1", "-", "2", "-", "3">>, <<"x", "-", "5">>,
     <<"-", "5", "-", "1", "0">>, <<"2", "0", "0">>}

ProbabilityParams == {"client-drop", "server-drop", "client-delay", "server-delay"}
DelayTimeParams == {"client-delay-time", "server-delay-time"}
RangeParams == {"client-delay-range", "server-delay-range"}
PresetNames == {"perfect", "mild", "moderate", "severe", "chaotic", "blackhole", "lossy"}

\* The command lines typed into the console.
Commands ==
    {Cmd("set", a, v, 3) : a \in ProbabilityParams, v \in ProbabilityTexts}
    \cup {Cmd("set", a, v, 3) : a \in DelayTimeParams, v \in DelayTimeTexts}
    \cup {Cmd("set", a, v, 3) : a \in RangeParams, v \in RangeTexts}
    \cup {Cmd("set", "client-loss", <<"5", "0">>, 3)}
    \cup {Cmd("set", a, <<>>, 2) : a \in {"client-drop", "server-delay-range"}}
    \cup {Cmd("preset", a, <<>>, 2) : a \in PresetNames}
    \cup {Cmd(v, "", <<>>, 1) : v \in {"reset", "show", "help", "presets", "preset", "set",
                                       "exit", "quit", "restart"}}

---------------------------------------------------------------------------
\* Specifications.

Init == InitClient /\ InitServer /\ InitNet /\ InitCodecIdle /\ InitProxy

\* The client's steps when sendto and recvfrom raise no transport error.
ClientSteps ==
    \/ \E msg \in Messages : ClientInput(msg, TRUE)
    \/ \E d \in BagToSet(net) : ClientRecv(d, TRUE)
    \/ ClientTimeout(TRUE)
    \/ Tick
    \/ ClientExit

\* The steps in which sendto or recvfrom raises a transport error.
ClientFaults ==
    \/ \E msg \in Messages : ClientInput(msg, FALSE)
    \/ \E d \in BagToSet(net) : ClientRecv(d, FALSE)
    \/ ClientTimeout(FALSE)
    \/ ClientRecvError

\* One client and one server joined by a transport that drops and delays.
Next ==
    \/ ClientSteps
    \/ \E d \in BagToSet(net) : ServerRecv(d)
    \/ ServerExit
    \/ \E d \in BagToSet(net) : NetDrop(d)

Spec == Init /\ [][Next]_vars

\* The client alone, with a peer that may send it anything. What the client
\* sends stays in the transport: nobody reads it.
NextClient ==
    \/ ClientSteps
    \/ ClientFaults
    \/ \E data \in ClientInputs : InjectToClient(data)

SpecClient == Init /\ [][NextClient]_vars

\* The server alone, with peers that may send it anything. Its ACKs stay in
\* the transport: nobody reads them.
NextServer ==
    \/ \E src \in Endpoints, data \in ServerInputs : InjectToServer(src, data)
    \/ \E d \in BagToSet(net) : ServerRecv(d)
    \/ ServerExit

SpecServer == Init /\ [][NextServer]_vars

\* The codec alone.
NextCodec == CodecEncode \/ CodecDecode

InitCodecSpec == InitClient /\ InitServer /\ InitNet /\ InitCodec /\ InitProxy

SpecCodec == InitCodecSpec /\ [][NextCodec]_vars

\* The proxy alone: datagrams arrive from its peers, and the scheduler and
\* the clock run.  The proxy starts with a valid policy, as its caller
\* provides.
Policy(cdrop, sdrop, cdelay, sdelay, crange, srange) ==
    [client_drop |-> cdrop, server_drop |-> sdrop, client_delay |-> cdelay,
     server_delay |-> sdelay, client_delay_time_range |-> crange,
     server_delay_time_range |-> srange]

\* Nothing shaped; or datagrams dropped at random, and those not dropped
\* delayed always (client-origin) or at random (server-origin).
StartPolicies ==
    {DefaultConfig,
     Policy(25, 25, 100, 40, <<100, 200>>, <<100, 100>>)}

ProxyCommands ==
    {Cmd("set", "client-drop", <<"1", "0", "0">>, 3),
     Cmd("set", "client-delay-range", <<"0", "-", "2", "0", "0">>, 3)}

InitProxySpec ==
    /\ InitClient /\ InitServer /\ InitNet /\ InitCodecIdle
    /\ config \in StartPolicies /\ InitPipe /\ InitConsole

PipelineSteps ==
    \/ \E r \in RandomDraws : ProxyDecideDrop(r)
    \/ \E r \in RandomDraws : ProxyDecideDelay(r)
    \/ ProxyEnqueue
    \/ SchedGet
    \/ SchedSend
    \/ ProxyTick

NextProxy ==
    \/ \E a \in ProxyArrivals :
           metrics.total_packets < MaxProxyPackets /\ ProxyRecv(a[2], a[1])
    \/ PipelineSteps

SpecProxy == InitProxySpec /\ [][NextProxy]_vars

\* The proxy while the operator changes the policy.
NextLive ==
    \/ \E a \in ProxyArrivals :
           metrics.total_packets < MaxLivePackets /\ ProxyRecv(a[2], a[1])
    \/ PipelineSteps
    \/ \E cmd \in ProxyCommands : con_count < MaxLiveCommands /\ ConsoleCommand(cmd)
    \/ ConsoleWrite

InitLiveSpec ==
    /\ InitClient /\ InitServer /\ InitNet /\ InitCodecIdle
    /\ config \in StartPolicies /\ InitPipe /\ InitConsole

SpecLive == InitLiveSpec /\ [][NextLive]_vars

\* The proxy between two clients and the server while the operator changes
\* the policy.  Client A speaks first; then client B or the server; then
\* client B or the server again.  Client-origin datagrams are dropped at
\* random and delayed otherwise, server-origin datagrams are delayed at
\* random and forwarded otherwise.  The scheduler thread runs whenever it
\* can (it is started at lines 518-519 and never ends), and the time it
\* sleeps goes by.
ClientA == Addr("10.0.0.1", 5000)
ClientB == Addr("10.0.0.1", 5001)

RelayArrivals(k) ==
    IF k = 1 THEN {<<create_packet(0, DATA, <<"h">>), ClientA>>}
    ELSE {<<create_packet(0, DATA, <<"h">>), ClientB>>,
          <<create_packet(0, ACK, <<>>), server_addr>>}

RelayPolicy == Policy(25, 0, 100, 40, <<100, 100>>, <<100, 200>>)

RelayCommands == {Cmd("set", "server-delay-time", <<"0">>, 3)}

NextRelay ==
    \/ \E a \in RelayArrivals(Len(p_hist) + 1) : ProxyRecv(a[2], a[1])
    \/ \E r \in RandomDraws : ProxyDecideDrop(r)
    \/ \E r \in RandomDraws : ProxyDecideDelay(r)
    \/ ProxyEnqueue
    \/ SchedGet
    \/ SchedSend
    \/ SleepTick
    \/ \E cmd \in RelayCommands : con_count < MaxLiveCommands /\ ConsoleCommand(cmd)
    \/ ConsoleWrite

InitRelay ==
    /\ InitClient /\ InitServer /\ InitNet /\ InitCodecIdle
    /\ config = RelayPolicy /\ InitPipe /\ InitConsole

SchedulerRuns == WF_vars(SchedGet) /\ WF_vars(SchedSend) /\ WF_vars(SleepTick)

SpecRelay == InitRelay /\ [][NextRelay]_vars /\ SchedulerRuns

\* The receive loop shaping one datagram while the operator resets the
\* policy or loads a preset; what is queued stays in the queue.
TornCommands == {Cmd("reset", "", <<>>, 1), Cmd("preset", "severe", <<>>, 2)}

NextTorn ==
    \/ \E a \in ProxyArrivals :
           metrics.total_packets < MaxLivePackets /\ ProxyRecv(a[2], a[1])
    \/ \E r \in RandomDraws : ProxyDecideDrop(r)
    \/ \E r \in RandomDraws : ProxyDecideDelay(r)
    \/ ProxyEnqueue
    \/ \E cmd \in TornCommands : con_count < MaxLiveCommands /\ ConsoleCommand(cmd)
    \/ ConsoleWrite

InitTorn ==
    /\ InitClient /\ InitServer /\ InitNet /\ InitCodecIdle
    /\ config \in StartPolicies /\ InitPipe /\ InitConsole

SpecTorn == InitTorn /\ [][NextTorn]_vars

\* The proxy with a socket whose sendto may raise.  When the receive loop
\* has ended, main() returns and the process ends, the scheduler (a daemon
\* thread) with it.
NextFaults ==
    \/ \E a \in ProxyArrivals :
           metrics.total_packets < MaxProxyPackets /\ ProxyRecv(a[2], a[1])
    \/ \E r \in RandomDraws : ProxyDecideDrop(r)
    \/ \E r \in RandomDraws : ProxyDecideDelay(r)
    \/ \E r \in RandomDraws : ProxyForwardError(r)
    \/ ProxyEnqueue
    \/ p_pc # "stopped" /\ SchedGet
    \/ p_pc # "stopped" /\ SchedSend
    \/ p_pc # "stopped" /\ SchedSendError
    \/ ProxyTick

InitFaults ==
    /\ InitClient /\ InitServer /\ InitNet /\ InitCodecIdle
    /\ config \in StartPolicies /\ InitPipe /\ InitConsole

SpecFaults == InitFaults /\ [][NextFaults]_vars

\* The console alone.
NextConsole ==
    \/ \E cmd \in Commands : ConsoleCommand(cmd)
    \/ ConsoleWrite

InitConsoleSpec ==
    /\ InitClient /\ InitServer /\ InitNet /\ InitCodecIdle
    /\ config \in {DefaultConfig, Policy(25, 25, 40, 40, <<100, 300>>, <<100, 300>>)}
    /\ InitPipe /\ InitConsole

SpecConsole == InitConsoleSpec /\ [][NextConsole]_vars

\* The client and the server joined by a transport that loses nothing, the
\* first message typed being "hello".
Hello == <<"h", "e", "l", "l", "o">>

NextHello ==
    \/ \E msg \in (IF c_msg_no = 0 THEN {Hello} ELSE Messages) : ClientInput(msg, TRUE)
    \/ \E d \in BagToSet(net) : ClientRecv(d, TRUE)
    \/ ClientTimeout(TRUE)
    \/ Tick
    \/ ClientExit
    \/ \E d \in BagToSet(net) : ServerRecv(d)
    \/ ServerExit

InitHello == InitClient /\ InitServer /\ InitNet /\ InitCodecIdle /\ InitProxy

SpecHello == InitHello /\ [][NextHello]_vars

---------------------------------------------------------------------------
\* Properties.

SeqField(data) == client_parse_packet(data).seq
AckOf(seq) == [kind |-> "ok", seq |-> seq, type |-> ACK, payload |-> <<>>]

\* C1: every message the client reports ACKED was, before that, received by
\* the server and classified new.
C1_AtLeastOnce == \A m \in c_acked : m \in s_new_tags

\* C2: a message that ends FAILED without any datagram having been received
\* was transmitted exactly max_retries + 1 times.
C2_SixTransmissions ==
    (c_outcome = "FAILED" /\ c_rcvd = 0) => Len(c_sent) = max_retries + 1

\* C3: a message ACKED by the only datagram received, after N-1 timeouts, was
\* transmitted exactly N times, every transmission the same DATA packet.
C3_NthAttempt ==
    (c_outcome = "ACKED" /\ c_rcvd = 1) =>
        /\ Len(c_sent) = c_timeouts + 1
        /\ \A i \in 1..Len(c_sent) : c_sent[i] = create_packet(seq_num - 1, DATA, message)

\* C4: the sequence counter starts at 0, advances by exactly one when a
\* message ends ACKED and in no other step, and the message sent after a
\* FAILED message carries the failed message's sequence number.
C4_SeqCounter ==
    /\ seq_num = 0
    /\ [][seq_num' = IF c_outcome # "ACKED" /\ c_outcome' = "ACKED"
                     THEN seq_num + 1 ELSE seq_num]_vars
    /\ []((c_prev.outcome = "FAILED" /\ c_sent # <<>>) =>
              SeqField(c_sent[1]) = SeqField(c_prev.sent[1]))

\* C4 witness: the message after a FAILED one was sent and ACKED with the same
\* sequence number 0, after timeouts and a non-matching datagram.
C4_Witness ==
    /\ c_prev.outcome = "FAILED"
    /\ c_outcome = "ACKED"
    /\ seq_num = 1
    /\ c_rcvd = 2

\* C5: receiving a datagram that is not the awaited ACK changes neither
\* retry_count nor retransmissions, transmits nothing and does not re-arm the
\* timeout of the current wait.
C5_NonMatchingOnlyWaits ==
    [][(c_pc = "recv" /\ c_rcvd' = c_rcvd + 1 /\ c_outcome' = "PENDING") =>
           /\ retry_count' = retry_count
           /\ retransmissions' = retransmissions
           /\ packets_sent' = packets_sent
           /\ c_sent' = c_sent
           /\ wait_elapsed' = wait_elapsed]_vars

\* C6: handling one inbound datagram sends exactly one ACK when it decodes
\* (the inbound sequence number, type ACK, empty payload, to the datagram's
\* source) and nothing when it is malformed, for new and duplicate alike.
C6_OneAckPerPacket ==
    [][packets_received' = packets_received + 1 =>
           LET d    == s_last'.d
               p    == server_parse_packet(d.data)
               rest == net (-) One(d)
               out  == net' (-) rest
           IN  /\ rest \sqsubseteq net'
               /\ IF p.kind = "ok"
                  THEN /\ BagCardinality(out) = 1
                       /\ \A a \in BagToSet(out) :
                              /\ a.src = ServerAddr
                              /\ a.dst = d.src
                              /\ client_parse_packet(a.data) = AckOf(p.seq)
                       /\ acks_sent' = acks_sent + 1
                  ELSE /\ out = EmptyBag
                       /\ acks_sent' = acks_sent]_vars

\* C6 witness: a duplicate was just acknowledged, and a malformed datagram
\* was handled before without an ACK.
C6_Witness ==
    /\ s_last.class = "duplicate"
    /\ acks_sent = 2
    /\ packets_received = 3

TwiceInARow(h, i) ==
    /\ i + 1 <= Len(h)
    /\ h[i].seq = h[i + 1].seq
    /\ (i = 1 \/ h[i - 1].seq # h[i].seq)

NewThenDuplicate(h, i) ==
    /\ h[i].class = "new"
    /\ h[i + 1].class = "duplicate"
    /\ \A j \in {i, i + 1} :
           /\ BagCardinality(h[j].acks) = 1
           /\ \A a \in BagToSet(h[j].acks) : client_parse_packet(a.data) = AckOf(h[i].seq)

\* C7 as stated: whenever an endpoint delivers the same sequence number twice
\* in a row, the first is new, the second duplicate, and both are ACKed.
C7_Original ==
    \A e \in Endpoints : \A i \in 1..Len(s_hist[e]) :
        TwiceInARow(s_hist[e], i) => NewThenDuplicate(s_hist[e], i)

\* C7 amended: the same, when at the first of the two deliveries the endpoint
\* had no record or the sequence number was greater than the stored one.
C7_Amended ==
    \A e \in Endpoints : \A i \in 1..Len(s_hist[e]) :
        (/\ TwiceInARow(s_hist[e], i)
         /\ (s_hist[e][i].before = <<>> \/ s_hist[e][i].seq > s_hist[e][i].before[1]))
        => NewThenDuplicate(s_hist[e], i)

\* C7 witness: an endpoint's very first packet, with a sequence number that is
\* not 0, delivered twice; and a second endpoint seen in between.
C7_Witness ==
    /\ Len(s_hist[ClientAddr]) = 2
    /\ s_hist[ClientAddr][1].seq = 2
    /\ s_hist[ClientAddr][2].seq = 2
    /\ Len(s_hist[OtherAddr]) = 1

\* C8: for an endpoint that has a record, a packet is new iff its sequence
\* number is greater than the stored one; otherwise it is a duplicate and the
\* stored value stays.
C8_Monotonic ==
    [][\A e \in Endpoints :
           (HasRecord(client_seq_nums, e) /\ Len(s_hist'[e]) = Len(s_hist[e]) + 1) =>
               LET h == s_hist'[e][Len(s_hist'[e])] IN
               /\ h.class = "new" <=> h.seq > client_seq_nums[e]
               /\ h.class = "duplicate" <=> h.seq <= client_seq_nums[e]
               /\ h.class = "duplicate" => client_seq_nums'[e] = client_seq_nums[e]
               /\ h.class = "new" => client_seq_nums'[e] = h.seq]_vars

\* C8 witness: 2 accepted, then 0 and 1 both duplicates, 1 being larger than
\* the earlier duplicate 0.
C8_Witness ==
    /\ Len(s_hist[ClientAddr]) = 3
    /\ s_hist[ClientAddr][1].seq = 2
    /\ s_hist[ClientAddr][2].seq = 0
    /\ s_hist[ClientAddr][3].seq = 1
    /\ s_hist[ClientAddr][3].class = "duplicate"
    /\ client_seq_nums[ClientAddr] = 2

\* C9: a malformed datagram never ends the server's receive loop.
C9_MalformedNeverTerminates ==
    s_last.class = "malformed" => s_state # "crashed"

\* C10: decode(encode(seq, type, payload)) = (seq, type, payload), with the
\* client's parser and with the server's.
C10_RoundTrip ==
    k_pc = "decoded" =>
        /\ k_out_client = [kind |-> "ok", seq |-> k_in.seq, type |-> k_in.type,
                           payload |-> k_in.payload]
        /\ k_out_server = k_out_client

\* C10 witness: a two-digit sequence number and a payload holding the delimiter.
C10_Witness ==
    /\ k_pc = "decoded"
    /\ k_in.seq >= 10
    /\ k_in.payload = <<Bar, "a">>

---------------------------------------------------------------------------
\* Properties of the proxy.

\* The datagrams the receive loop has finished with.
Completed(h) == h.outcome # "pending"
HistSet == {p_hist[i] : i \in 1..Len(p_hist)}

\* How often the receive loop sent datagram n, and how often it was queued:
\* a queued datagram is in the queue, held by the sleeping scheduler, or sent
\* by the scheduler.
LoopSends(n) == Cardinality({i \in 1..Len(p_sent) : p_sent[i].by = "loop" /\ p_sent[i].n = n})
SchedSends(n) ==
    Cardinality({i \in 1..Len(p_sent) : p_sent[i].by = "sched" /\ p_sent[i].n = n})
Enqueues(n) ==
    Cardinality({i \in 1..Len(delayed_packets) : delayed_packets[i].n = n})
    + (IF d_pc = "sleep" /\ d_cur.n = n THEN 1 ELSE 0)
    + SchedSends(n)
DropsCounted(dir) == Cardinality({h \in HistSet : h.dir = dir /\ h.outcome = "drop"})
DelaysCounted(dir) == Cardinality({h \in HistSet : h.dir = dir /\ h.outcome = "delay"})

\* C11: every client-origin datagram, and every server-origin datagram
\* processed while a client endpoint is known, is dropped, queued or sent by
\* the receive loop, and only one of the three; the drop decision comes
\* first and the delay decision is taken only for a datagram that was not
\* dropped; a dropped datagram is neither sent nor queued; a delayed datagram
\* is queued once and not sent by the receive loop.
C11_ExactlyOneOutcome ==
    /\ \A h \in HistSet :
           h.known =>
               /\ h.delay # <<>> => (h.drop # <<>> /\ h.outcome # "drop")
               /\ h.outcome = "drop" => (LoopSends(h.n) = 0 /\ Enqueues(h.n) = 0)
               /\ h.outcome = "delay" => (LoopSends(h.n) = 0 /\ Enqueues(h.n) = 1)
               /\ h.outcome = "forward" => (LoopSends(h.n) = 1 /\ Enqueues(h.n) = 0)
               /\ h.outcome = "pending" => (LoopSends(h.n) = 0 /\ Enqueues(h.n) = 0)
               /\ h.outcome \in {"pending", "drop", "delay", "forward"}
    /\ \A dir \in {"c2s", "s2c"} :
           /\ metrics[DroppedKey(dir)] = DropsCounted(dir)
           /\ metrics[DelayedKey(dir)] = DelaysCounted(dir)

\* C11 witness: a client-origin datagram was dropped, and a server-origin
\* datagram, processed with the client known, was delayed and then sent by
\* the scheduler.
C11_Witness ==
    /\ \E h \in HistSet : h.dir = "c2s" /\ h.outcome = "drop"
    /\ \E h \in HistSet : h.dir = "s2c" /\ h.outcome = "delay" /\ SchedSends(h.n) = 1

\* C12: a datagram whose drop decision reads the probability 1 is discarded:
\* it is not sent by the receive loop and it is not queued, whatever the
\* delay probability.
C12_CertainDrop ==
    \A h \in HistSet :
        h.drop = <<100>> =>
            /\ h.outcome = "drop"
            /\ h.delay = <<>>
            /\ LoopSends(h.n) = 0
            /\ Enqueues(h.n) = 0

\* C12 witness: the drop probability became 1 while the datagram was being
\* processed, the delay probability of the direction being 1 as well.
C12_Witness ==
    \E h \in HistSet :
        /\ h.cfg0 = <<25, 100>>
        /\ h.drop = <<100>>
        /\ h.outcome = "drop"
        /\ config[DelayKey(h.dir)] = 100

\* The drop and the delay probability were 0 when the datagram arrived and
\* at every decision taken for it.
InForce00(h) ==
    /\ h.cfg0 = <<0, 0>>
    /\ h.drop \in {<<>>, <<0>>}
    /\ h.delay \in {<<>>, <<0>>}

SentByLoop(h) ==
    \E i \in 1..Len(p_sent) :
        /\ p_sent[i].by = "loop"
        /\ p_sent[i].n = h.n
        /\ p_sent[i].data = h.data
        /\ p_sent[i].addr = h.target

\* C13 as stated: with drop and delay probability 0, every datagram received
\* in a direction, server-origin ones included, is sent by the receive loop
\* and none is queued.
C13_Original ==
    \A h \in HistSet :
        (Completed(h) /\ InForce00(h)) =>
            (SentByLoop(h) /\ LoopSends(h.n) = 1 /\ Enqueues(h.n) = 0)

\* C13 amended: so it is for every client-origin datagram and for every
\* server-origin datagram received while a client endpoint is known; a
\* server-origin datagram received before any client is discarded.
C13_Amended ==
    \A h \in HistSet :
        (Completed(h) /\ InForce00(h)) =>
            IF h.known
            THEN SentByLoop(h) /\ LoopSends(h.n) = 1 /\ Enqueues(h.n) = 0
            ELSE h.dir = "s2c" /\ LoopSends(h.n) = 0 /\ Enqueues(h.n) = 0

\* C13 witness: a server-origin datagram sent on to the client by the
\* receive loop, and a client-origin one sent on to the server.
C13_Witness ==
    /\ \E h \in HistSet : h.dir = "s2c" /\ InForce00(h) /\ SentByLoop(h)
    /\ \E h \in HistSet : h.dir = "c2s" /\ InForce00(h) /\ SentByLoop(h)

\* The datagrams the scheduler has sent, in the order of sending.
SchedSent == SelectSeq(p_sent, LAMBDA x : x.by = "sched")

\* C14: the scheduler sends in the order of enqueueing (which is the order
\* of arrival): if A was queued before B and B has been sent, A was sent
\* before B, whatever their release times and directions.
C14_Fifo ==
    /\ \A i, j \in 1..Len(SchedSent) : i < j => SchedSent[i].n < SchedSent[j].n
    /\ \A a, b \in HistSet :
           (a.outcome = "delay" /\ b.outcome = "delay" /\ a.n < b.n /\ SchedSends(b.n) = 1)
               => SchedSends(a.n) = 1

\* C14 witness: A, client-origin, was queued with a release time later than
\* that of B, server-origin and queued after A; both have been sent, B not
\* before A's release time.
C14_Witness ==
    /\ Len(SchedSent) = 2
    /\ SchedSent[1].release > SchedSent[2].release
    /\ SchedSent[1].addr = server_addr
    /\ SchedSent[2].addr # server_addr
    /\ SchedSent[2].at >= SchedSent[1].release

\* The commands the console is to refuse, told by their text: a verb that
\* is no command, a preset that is not in the table, `set` without a value,
\* a parameter that does not exist, and values that are no number, no
\* probability in 0..100, negative, or no range min-max with min <= max.
C15_GoodProbabilities == {<<"0">>, <<"5", "0">>, <<"1", "0", "0">>}
C15_GoodDelayTimes == {<<"0">>, <<"2", "0", "0">>}
C15_GoodRanges == {<<"1", "0", "0", "-", "3", "0", "0">>}
C15_Invalid(cmd) ==
    \/ cmd.verb \notin {"reset", "show", "help", "presets", "preset", "set", "exit", "quit"}
    \/ cmd.verb \in {"preset", "set"} /\ cmd.n = 1
    \/ cmd.verb = "preset" /\ cmd.n = 2
         /\ cmd.arg \notin {"perfect", "mild", "moderate", "severe", "chaotic", "blackhole"}
    \/ cmd.verb = "set" /\ cmd.n = 2
    \/ cmd.verb = "set" /\ cmd.n = 3
         /\ cmd.arg \notin ProbabilityParams \cup DelayTimeParams \cup RangeParams
    \/ cmd.verb = "set" /\ cmd.n = 3 /\ cmd.arg \in ProbabilityParams
         /\ cmd.value \notin C15_GoodProbabilities
    \/ cmd.verb = "set" /\ cmd.n = 3 /\ cmd.arg \in DelayTimeParams
         /\ cmd.value \notin C15_GoodDelayTimes
    \/ cmd.verb = "set" /\ cmd.n = 3 /\ cmd.arg \in RangeParams
         /\ cmd.value \notin C15_GoodRanges

\* C15: an invalid command changes none of the six fields of the policy,
\* leaves no assignment to be made, and the console goes on to its next
\* input.
C15_InvalidLeavesPolicy ==
    [][(con_count' = con_count + 1 /\ C15_Invalid(con_last'.cmd)) =>
           (config' = config /\ con_writes' = <<>> /\ con_pc' = "input")]_vars

\* C15 witness: after `set client-delay-time 0` the range 300-100 was
\* refused; the console waits for the next command.
C15_Witness ==
    /\ con_count = 2
    /\ con_pc = "input"
    /\ con_last.cmd = Cmd("set", "client-delay-range",
                          <<"3", "0", "0", "-", "1", "0", "0">>, 3)
    /\ config.client_delay_time_range = <<0, 0>>
    /\ config = con_last.before

\* The preset table: drop %, delay %, delay range in ms, for both directions.
C16_Table(name) ==
    CASE name = "perfect"   -> Policy(0, 0, 0, 0, <<100, 100>>, <<100, 100>>)
      [] name = "mild"      -> Policy(10, 10, 20, 20, <<100, 100>>, <<100, 100>>)
      [] name = "moderate"  -> Policy(25, 25, 40, 40, <<100, 300>>, <<100, 300>>)
      [] name = "severe"    -> Policy(50, 50, 60, 60, <<200, 500>>, <<200, 500>>)
      [] name = "chaotic"   -> Policy(70, 70, 80, 80, <<300, 1000>>, <<300, 1000>>)
      [] name = "blackhole" -> Policy(100, 100, 0, 0, <<100, 100>>, <<100, 100>>)

C17_Data == <<"0", "|", "D", "A", "T", "A", "|", "h", "e", "l", "l", "o">>
C17_Ack  == <<"0", "|", "A", "C", "K", "|">>

\* C17: the first message being "hello", nothing lost and no receive timeout
\* having expired before the ACK came: the client has sent 0|DATA|hello and
\* nothing else; the server, once it has the packet, has classified it new
\* and replied with 0|ACK| to the client; and when the message is done the
\* client has packets_sent = 1, acks_received = 1, retransmissions = 0 and
\* seq_num = 1.
C17_FirstMessage ==
    (c_msg_no = 1 /\ c_timeouts = 0) =>
        /\ c_sent = <<C17_Data>>
        /\ packets_sent = 1
        /\ Len(s_hist[ClientAddr]) <= 1
        /\ Len(s_hist[ClientAddr]) = 1 =>
               /\ s_hist[ClientAddr][1].class = "new"
               /\ s_hist[ClientAddr][1].seq = 0
               /\ s_hist[ClientAddr][1].acks = One(Datagram(ServerAddr, ClientAddr, C17_Ack, 1))
               /\ unique_packets_received = 1
               /\ duplicate_packets = 0
        /\ c_pc = "input" =>
               /\ c_outcome = "ACKED"
               /\ acks_received = 1
               /\ retransmissions = 0
               /\ seq_num = 1
               /\ net = EmptyBag

\* C17 witness: the first message is done, acknowledged.
C17_Witness ==
    /\ c_msg_no = 1
    /\ c_timeouts = 0
    /\ c_pc = "input"
    /\ c_outcome = "ACKED"
    /\ message = Hello
    /\ acks_sent = 1

Unparseable(data) == proxy_parse_packet(data) = NoneTriple
ReceivedFrom(dir) == Cardinality({h \in HistSet : h.dir = dir})

\* C18 as stated: a datagram that does not decode is neither sent on nor
\* queued, while the counters of received datagrams count it.
C18_Original ==
    /\ metrics.total_packets = Len(p_hist)
    /\ \A dir \in {"c2s", "s2c"} : metrics[PacketsKey(dir)] = ReceivedFrom(dir)
    /\ \A h \in HistSet : Unparseable(h.data) => (LoopSends(h.n) = 0 /\ Enqueues(h.n) = 0)

\* Datagram h has had one of the three outcomes, and what was sent or queued
\* for it is the bytes received, addressed to the destination of its
\* direction.
ShapedOnce(h) ==
    /\ LoopSends(h.n) + Enqueues(h.n) + (IF h.outcome = "drop" THEN 1 ELSE 0) = 1
    /\ \A i \in 1..Len(p_sent) :
           p_sent[i].n = h.n => (p_sent[i].data = h.data /\ p_sent[i].addr = h.target)
    /\ \A i \in 1..Len(delayed_packets) :
           delayed_packets[i].n = h.n =>
               (delayed_packets[i].data = h.data /\ delayed_packets[i].addr = h.target)

\* C18 amended: a datagram that does not decode is counted as received (in
\* total and for its direction) and is then shaped as any other datagram:
\* dropped, queued or sent on unchanged.
C18_Amended ==
    /\ metrics.total_packets = Len(p_hist)
    /\ \A dir \in {"c2s", "s2c"} : metrics[PacketsKey(dir)] = ReceivedFrom(dir)
    /\ \A h \in HistSet :
           (Unparseable(h.data) /\ Completed(h) /\ h.known) => ShapedOnce(h)

\* C18 witness: bytes that do not decode came from a client and were sent on
\* to the server by the scheduler, and bytes that do not decode came from
\* the server and were sent to that client by the receive loop.
C18_Witness ==
    /\ \E h \in HistSet :
           h.dir = "c2s" /\ Unparseable(h.data) /\ h.outcome = "delay" /\ SchedSends(h.n) = 1
    /\ \E h \in HistSet :
           h.dir = "s2c" /\ Unparseable(h.data) /\ SentByLoop(h)

\* C19: a datagram is server-origin exactly when its source address and port
\* are those of the server; any other datagram makes its source the client
\* pointer in the step that receives it; a server-origin datagram leaves
\* the pointer, and so does every later step on any datagram (drop, delay,
\* forward).
C19_Classification ==
    [][IF Len(p_hist') = Len(p_hist) + 1
       THEN LET h == p_hist'[Len(p_hist')] IN
            /\ h.dir = "s2c" <=> (h.addr.ip = "10.0.0.2" /\ h.addr.port = 5000)
            /\ h.dir = "c2s" <=> ~(h.addr.ip = "10.0.0.2" /\ h.addr.port = 5000)
            /\ h.dir = "c2s" => latest_client' = h.addr
            /\ h.dir = "s2c" => latest_client' = latest_client
       ELSE latest_client' = latest_client]_vars

\* C19 witness: a datagram from a peer on the server's host was dropped or
\* delayed and the pointer is that peer; then a server-origin datagram came
\* and left the pointer.
C19_Witness ==
    /\ Len(p_hist) = 2
    /\ p_hist[1].dir = "c2s"
    /\ p_hist[1].addr.ip = server_addr.ip
    /\ p_hist[1].outcome \in {"drop", "delay"}
    /\ p_hist[2].dir = "s2c"
    /\ latest_client = p_hist[1].addr

\* C20: what the scheduler sends it sends at or after the entry's release
\* time, which is the time read when the datagram was delayed plus the
\* delay drawn; the delay drawn lies within the range read for that
\* datagram and is its minimum when minimum and maximum are equal.
C20_NotBeforeRelease ==
    /\ \A i \in 1..Len(p_sent) :
           p_sent[i].by = "sched" =>
               /\ p_sent[i].at >= p_sent[i].release
               /\ p_sent[i].release = p_hist[p_sent[i].n].t0 + p_hist[p_sent[i].n].drawn
    /\ \A h \in HistSet :
           h.outcome = "delay" =>
               /\ h.range[1] <= h.drawn
               /\ h.drawn <= h.range[2]
               /\ h.range[1] = h.range[2] => h.drawn = h.range[1]
    /\ \A i \in 1..Len(delayed_packets) :
           delayed_packets[i].send_time
               = p_hist[delayed_packets[i].n].t0 + p_hist[delayed_packets[i].n].drawn

\* C20 witness: the range was changed to 0-200 while the datagram was being
\* processed, the delay drawn was 100 ms, read at a time after 0, and the
\* scheduler has sent the datagram.
C20_Witness ==
    \E i \in 1..Len(p_sent) :
        /\ p_sent[i].by = "sched"
        /\ p_hist[p_sent[i].n].range = <<0, 200>>
        /\ p_hist[p_sent[i].n].drawn = TickMs
        /\ p_hist[p_sent[i].n].t0 > 0
        /\ p_sent[i].at >= p_sent[i].release

\* What was recorded for the queued datagram h: its bytes, its destination
\* and its release time.
AsRecorded(e, h) ==
    e.addr = h.target /\ e.data = h.data /\ e.send_time = h.t0 + h.drawn

\* C21, in every state: a datagram that was queued is in the queue, with the
\* sleeping scheduler, or sent by the scheduler, and only one of the three
\* (it is not cancelled and not sent twice); in the queue, with the scheduler
\* and when it is sent it has the bytes, the destination and the release
\* time recorded when it was queued, and it is not sent before that time;
\* the scheduler sends nothing that was not queued.
C21_Recorded ==
    /\ \A h \in HistSet :
           h.outcome = "delay" =>
               /\ Enqueues(h.n) = 1
               /\ \A i \in 1..Len(delayed_packets) :
                      delayed_packets[i].n = h.n => AsRecorded(delayed_packets[i], h)
               /\ (d_pc = "sleep" /\ d_cur.n = h.n) => AsRecorded(d_cur, h)
               /\ \A i \in 1..Len(p_sent) :
                      (p_sent[i].by = "sched" /\ p_sent[i].n = h.n) =>
                          /\ p_sent[i].addr = h.target
                          /\ p_sent[i].data = h.data
                          /\ p_sent[i].release = h.t0 + h.drawn
                          /\ p_sent[i].at >= h.t0 + h.drawn
    /\ \A i \in 1..Len(p_sent) :
           p_sent[i].by = "sched" =>
               (p_sent[i].n <= Len(p_hist) /\ p_hist[p_sent[i].n].outcome = "delay")

\* C21: while the proxy runs, every datagram that was queued is sent by the
\* scheduler in the end, once, with the bytes and to the destination recorded
\* when it was queued and not before its release time, whatever happens
\* afterwards to the client endpoint and to the policy.
C21_QueuedIsSentOnce ==
    /\ []C21_Recorded
    /\ \A n \in 1..MaxArrivals :
           (n <= Len(p_hist) /\ p_hist[n].outcome = "delay") ~> (SchedSends(n) = 1)

\* C21 witness: a server-origin datagram was queued for client A with a
\* delay of 200 ms drawn from the range 100-200; before its release time a
\* datagram of client B was received, which made B the client endpoint; the
\* operator has set the server delay time to 0; the scheduler has sent the
\* datagram to A, not before its release time.
C21_Witness ==
    \E h, g \in HistSet :
        /\ h.dir = "s2c" /\ h.outcome = "delay" /\ h.target = ClientA
        /\ h.range = <<100, 200>> /\ h.drawn = 200
        /\ g.n > h.n /\ g.addr = ClientB /\ g.outcome = "delay"
        /\ g.t0 < h.t0 + h.drawn
        /\ latest_client = ClientB
        /\ config.server_delay_time_range = <<0, 0>>
        /\ \E i \in 1..Len(p_sent) :
               /\ p_sent[i].by = "sched" /\ p_sent[i].n = h.n
               /\ p_sent[i].addr = ClientA
               /\ p_sent[i].at >= h.t0 + 200

\* The source endpoint of the most recent client-origin datagram received
\* before datagram n (NoAddr when there is none).
LastClientBefore(n) ==
    LET S == {i \in 1..(n - 1) : p_hist[i].dir = "c2s"}
    IN  IF S = {} THEN NoAddr
        ELSE p_hist[CHOOSE i \in S : \A j \in S : j <= i].addr

\* C22: a server-origin datagram that is forwarded is written to the source
\* endpoint of the most recent client-origin datagram received before it,
\* and one that is delayed is queued for, and later sent to, that endpoint,
\* whatever became of that client-origin datagram.
C22_ToLatestClient ==
    \A h \in HistSet :
        (h.dir = "s2c" /\ h.outcome \in {"forward", "delay"}) =>
            /\ LastClientBefore(h.n) # NoAddr
            /\ h.outcome = "forward" =>
                   \E i \in 1..Len(p_sent) : /\ p_sent[i].by = "loop"
                                              /\ p_sent[i].n = h.n
                                              /\ p_sent[i].addr = LastClientBefore(h.n)
            /\ \A i \in 1..Len(p_sent) :
                   p_sent[i].n = h.n => p_sent[i].addr = LastClientBefore(h.n)
            /\ \A i \in 1..Len(delayed_packets) :
                   delayed_packets[i].n = h.n =>
                       delayed_packets[i].addr = LastClientBefore(h.n)
            /\ (d_pc = "sleep" /\ d_cur.n = h.n) => d_cur.addr = LastClientBefore(h.n)

\* C22 witness: client A's packet 0 was delayed and sent on to the server,
\* client B's datagram was dropped, and the server's ACK 0, which can only
\* answer A, was forwarded to B.
C22_Witness ==
    /\ Len(p_hist) = 3
    /\ p_hist[1].addr = ClientA /\ p_hist[1].outcome = "delay" /\ SchedSends(1) = 1
    /\ p_hist[2].addr = ClientB /\ p_hist[2].outcome = "drop"
    /\ p_hist[3].dir = "s2c" /\ p_hist[3].data = create_packet(0, ACK, <<>>)
    /\ p_hist[3].outcome = "forward"
    /\ \E i, j \in 1..Len(p_sent) :
           /\ i < j
           /\ p_sent[i].by = "sched" /\ p_sent[i].n = 1 /\ p_sent[i].addr = server_addr
           /\ p_sent[j].by = "loop" /\ p_sent[j].n = 3 /\ p_sent[j].addr = ClientB

\* The receive loop can take its next step: recvfrom returns a datagram that
\* is there, and each decision is taken.
C23_LoopCanStep ==
    /\ (p_pc = "recv" /\ metrics.total_packets < MaxArrivals) =>
           \A a \in RelayArrivals(Len(p_hist) + 1) : ENABLED ProxyRecv(a[2], a[1])
    /\ p_pc = "drop" => \A r \in RandomDraws : ENABLED ProxyDecideDrop(r)
    /\ p_pc = "delay" => \A r \in RandomDraws : ENABLED ProxyDecideDelay(r)
    /\ p_pc = "enqueue" => ENABLED ProxyEnqueue

\* A step of the receive loop leaves the scheduler, the console and the
\* policy alone; it leaves the queue as it is or appends one entry to it,
\* and having appended it is back at recvfrom.
C23_LoopStep ==
    p_hist' # p_hist =>
        /\ UNCHANGED <<schedVars, conVars, config, now>>
        /\ \/ delayed_packets' = delayed_packets
           \/ /\ Len(delayed_packets') = Len(delayed_packets) + 1
              /\ SubSeq(delayed_packets', 1, Len(delayed_packets)) = delayed_packets
              /\ p_pc' = "recv"

\* C23: whatever the scheduler and the console are doing (the scheduler
\* sleeping on an entry, any number of entries queued, the console at its
\* prompt or between two assignments of a command), the receive loop can
\* take the next datagram and take each decision for it; its steps wait for
\* neither thread, and deciding "delay" appends to the queue and returns.
C23_NeverWaits == []C23_LoopCanStep /\ [][C23_LoopStep]_vars

\* C23 witness: the scheduler sleeps on the first entry, the second entry is
\* queued, the console is between reading a command and assigning, and the
\* receive loop has taken the third datagram and decided to delay it.
C23_Witness ==
    /\ d_pc = "sleep" /\ d_cur.n = 1 /\ now < d_wake
    /\ Len(delayed_packets) = 1 /\ delayed_packets[1].n = 2
    /\ con_pc = "writing"
    /\ Len(p_hist) = 3 /\ p_pc = "enqueue"

\* The values field key has held since the proxy started, when at most one
\* command has been entered: the value before the command, and the values
\* the command assigns to the field.
ValuesWritten(key) ==
    LET before == IF con_count = 0 THEN config ELSE con_last.before
        writes == CommandWrites(con_last.cmd)
    IN  {before[key]} \cup {writes[i].val : i \in {j \in 1..Len(writes) : writes[j].key = key}}

\* The values any start policy or command of the scenario gives field key.
ValuesEver(key) ==
    {p[key] : p \in StartPolicies}
    \cup UNION {{CommandWrites(cmd)[i].val :
                    i \in {j \in 1..Len(CommandWrites(cmd)) : CommandWrites(cmd)[j].key = key}}
                : cmd \in TornCommands}

\* C24: each value the pipeline reads for a datagram (the drop probability,
\* the delay probability, the delay range of its direction) is a value that
\* was assigned to that field as a whole: the value from before the command
\* or the value the command assigns; a range is never the min of one
\* assignment with the max of another.
C24_WholeReads ==
    \A h \in HistSet :
        /\ h.drop # <<>> =>
               /\ h.drop[1] \in ValuesEver(DropKey(h.dir))
               /\ con_count <= 1 => h.drop[1] \in ValuesWritten(DropKey(h.dir))
        /\ h.delay # <<>> =>
               /\ h.delay[1] \in ValuesEver(DelayKey(h.dir))
               /\ con_count <= 1 => h.delay[1] \in ValuesWritten(DelayKey(h.dir))
        /\ h.range # <<>> =>
               /\ h.range \in ValuesEver(RangeKey(h.dir))
               /\ con_count <= 1 => h.range \in ValuesWritten(RangeKey(h.dir))

\* C24 witness: `reset` was entered with the policy 25 % drop, 100 % delay,
\* range 100-200 ms for client-origin datagrams; a client-origin datagram
\* was decided with the new drop probability (0), the old delay probability
\* (100 %) and the old range (100-200 ms), and queued.
C24_Witness ==
    /\ con_last.cmd = Cmd("reset", "", <<>>, 1)
    /\ con_last.before.client_drop = 25
    /\ \E h \in HistSet :
           /\ h.dir = "c2s"
           /\ h.drop = <<0>>
           /\ h.delay = <<100>>
           /\ h.range = <<100, 200>>
           /\ h.outcome = "delay"

\* C25: in every state of the console, between the assignments of a command
\* as well as at the prompt, whatever commands were entered, each of the
\* four probabilities is in 0..100 percent (0..1 in the code's unit) and each
\* delay range has 0 <= min <= max.
C25_PolicyValid ==
    /\ \A key \in {"client_drop", "server_drop", "client_delay", "server_delay"} :
           0 <= config[key] /\ config[key] <= 100
    /\ \A key \in {"client_delay_time_range", "server_delay_time_range"} :
           /\ Len(config[key]) = 2
           /\ 0 <= config[key][1]
           /\ config[key][1] <= config[key][2]

\* C25 witness: a first command changed the policy; the second, `preset
\* chaotic`, has made three of its six assignments: the drop probabilities
\* are new, the server's delay probability and the ranges are not.
C25_Witness ==
    /\ con_count = 2
    /\ con_last.cmd = Cmd("preset", "chaotic", <<>>, 2)
    /\ con_last.before \notin {DefaultConfig, Policy(25, 25, 40, 40, <<100, 300>>, <<100, 300>>)}
    /\ con_pc = "writing" /\ Len(con_writes) = 3
    /\ config.client_drop = 70 /\ config.client_delay = 80
    /\ config.server_delay = con_last.before.server_delay
    /\ config.server_delay_time_range = con_last.before.server_delay_time_range
    /\ config.server_delay_time_range # <<300, 1000>>

\* A step in which sendto or recvfrom raises a transport error: while a
\* message is awaiting its ACK, or at the first transmission of a message
\* just typed.
C26_ErrorStep ==
    (c_outcome' = "ERROR" /\ (c_pc = "recv" \/ c_msg_no' # c_msg_no)) =>
        /\ c_pc' = "input"
        /\ seq_num' = seq_num
        /\ retry_count' = (IF c_msg_no' # c_msg_no THEN 0 ELSE retry_count)
        /\ retransmissions' = retransmissions
        /\ packets_sent' = packets_sent
        /\ c_sent' = (IF c_msg_no' # c_msg_no THEN <<>> ELSE c_sent)
        /\ \A x \in BagToSet(net') : CopiesIn(x, net') <= CopiesIn(x, net)

\* Once the error has ended a message, nothing more is done for it.
C26_AfterError ==
    (c_outcome = "ERROR" /\ c_msg_no' = c_msg_no) =>
        /\ c_pc' # "recv"
        /\ c_sent' = c_sent
        /\ packets_sent' = packets_sent
        /\ retry_count' = retry_count
        /\ seq_num' = seq_num

\* After the error the client is at its prompt (or has exited), and takes
\* the next message typed.
C26_Proceeds ==
    c_outcome = "ERROR" =>
        /\ c_pc \in {"input", "exited"}
        /\ (c_pc = "input" /\ c_msg_no < MaxMessages) =>
               \A msg \in Messages : ENABLED ClientInput(msg, TRUE)

\* C26: a transport error other than a timeout, raised by sendto or by
\* recvfrom, ends the message's loop in that step: nothing is transmitted,
\* retry_count, the retransmission counter and the sequence counter are not
\* advanced, nothing more is sent for that message, and the client takes the
\* next message.
C26_ErrorEndsMessage == [][C26_ErrorStep /\ C26_AfterError]_vars /\ []C26_Proceeds

\* C26 witness: the first message was transmitted and ended by a transport
\* error while its ACK was awaited; the second message has been transmitted
\* with the same sequence number.
C26_Witness ==
    /\ c_msg_no = 2
    /\ c_prev.outcome = "ERROR"
    /\ Len(c_prev.sent) = 1
    /\ c_outcome = "PENDING"
    /\ Len(c_sent) = 1
    /\ SeqField(c_sent[1]) = SeqField(c_prev.sent[1])

\* C27: a sendto that raises ends neither loop of the proxy: in the step in
\* which an immediate forward fails the receive loop returns to recvfrom,
\* and in the step in which a delayed send fails the scheduler returns to
\* the queue.
C27_NeitherLoopEnds ==
    [][/\ (p_hist' # p_hist /\ p_hist'[Len(p_hist')].outcome = "senderror") => p_pc' = "recv"
       /\ (d_pc = "sleep" /\ d_pc' # "sleep" /\ p_sent' = p_sent) => d_pc' = "get"]_vars

\* The sequence numbers of the decodable packets received from endpoint e.
SeqsFrom(e) == {s_hist[e][i].seq : i \in 1..Len(s_hist[e])}

\* C28, in every state: the endpoints with a record are those from which a
\* decodable packet was received, and the stored sequence number of an
\* endpoint is the largest sequence number received from it.
C28_StoredIsMax ==
    /\ DOMAIN client_seq_nums = {e \in Endpoints : s_hist[e] # <<>>}
    /\ \A e \in DOMAIN client_seq_nums :
           /\ client_seq_nums[e] \in SeqsFrom(e)
           /\ \A x \in SeqsFrom(e) : x <= client_seq_nums[e]

\* C28, in every step: no record is removed, no stored value decreases, and
\* a packet from one endpoint leaves the records of the others as they are.
C28_Step ==
    /\ DOMAIN client_seq_nums \subseteq DOMAIN client_seq_nums'
    /\ \A e \in DOMAIN client_seq_nums : client_seq_nums'[e] >= client_seq_nums[e]
    /\ packets_received' # packets_received =>
           \A e \in Endpoints \ {s_last'.d.src} :
               /\ (e \in DOMAIN client_seq_nums') = (e \in DOMAIN client_seq_nums)
               /\ e \in DOMAIN client_seq_nums => client_seq_nums'[e] = client_seq_nums[e]

\* C28: Client Records are created by the first decodable packet of an
\* endpoint and never removed; the stored sequence number of an endpoint is
\* the maximum of the sequence numbers received from it and never
\* decreases; a packet changes only the record of its own endpoint.
C28_ClientRecords == []C28_StoredIsMax /\ [][C28_Step]_vars

\* C28 witness: one endpoint sent packets 2 and then 0, another endpoint
\* packet 1: the records hold 2 and 1.
C28_Witness ==
    /\ Len(s_hist[ClientAddr]) = 2
    /\ s_hist[ClientAddr][1].seq = 2 /\ s_hist[ClientAddr][2].seq = 0
    /\ Len(s_hist[OtherAddr]) = 1 /\ s_hist[OtherAddr][1].seq = 1
    /\ client_seq_nums[ClientAddr] = 2
    /\ client_seq_nums[OtherAddr] = 1

\* The decodable packets received that were classified c.
Classified(c) ==
    {<<e, i>> \in Endpoints \X (1..MaxInjectServer) :
        i <= Len(s_hist[e]) /\ s_hist[e][i].class = c}

\* C29, in every state (the server is between two datagrams in each): what
\* was received is unique, duplicate or malformed, and every unique and
\* every duplicate packet was acknowledged; the two counters count the
\* packets classified new and duplicate.
C29_Sums ==
    /\ packets_received = unique_packets_received + duplicate_packets + s_malformed
    /\ acks_sent = unique_packets_received + duplicate_packets
    /\ unique_packets_received = Cardinality(Classified("new"))
    /\ duplicate_packets = Cardinality(Classified("duplicate"))

\* C29, in every step that handles a datagram: a decodable packet adds one
\* to one of the two counters and to acks_sent, a malformed one to none.
C29_Step ==
    packets_received' # packets_received =>
        /\ packets_received' = packets_received + 1
        /\ s_last'.class = "new" =>
               /\ unique_packets_received' = unique_packets_received + 1
               /\ duplicate_packets' = duplicate_packets
               /\ acks_sent' = acks_sent + 1
        /\ s_last'.class = "duplicate" =>
               /\ unique_packets_received' = unique_packets_received
               /\ duplicate_packets' = duplicate_packets + 1
               /\ acks_sent' = acks_sent + 1
        /\ s_last'.class = "malformed" =>
               UNCHANGED <<unique_packets_received, duplicate_packets, acks_sent>>
        /\ s_last'.class \in {"new", "duplicate", "malformed"}

\* C29: packets_received = unique_packets_received + duplicate_packets +
\* malformed datagrams, acks_sent = unique_packets_received +
\* duplicate_packets, and each decodable packet increments one of the two.
C29_ReceiverCounters == []C29_Sums /\ [][C29_Step]_vars

\* C29 witness: a new packet, a duplicate of it and a malformed datagram
\* were received: 3 = 1 + 1 + 1 and two ACKs were sent.
C29_Witness ==
    /\ packets_received = 3
    /\ unique_packets_received = 1
    /\ duplicate_packets = 1
    /\ s_malformed = 1
    /\ acks_sent = 2
    /\ s_state = "running"

\* C30: whatever arrives at the client, a message is not waited for longer
\* than its max_retries + 1 timeouts take, so that it ends ACKED or FAILED,
\* and no message sees more than max_retries + 1 timeouts.
C30_EveryCallEnds ==
    /\ c_timeouts <= max_retries + 1
    /\ c_waited <= (max_retries + 1) * TimeoutTicks

\* C31: with one client and one server, once the server has a record for the
\* client, the sequence number it stores is the client's counter or the one
\* before it: the server records nothing the client has not sent, and the
\* client does not advance past what the server has received.
C31_CounterAndRecord ==
    HasRecord(client_seq_nums, ClientAddr) =>
        /\ seq_num - 1 <= client_seq_nums[ClientAddr]
        /\ client_seq_nums[ClientAddr] <= seq_num

\* The client has advanced once and the server already holds the packet of
\* the message now being sent, whose ACK the client has not received.
C31_Witness ==
    /\ HasRecord(client_seq_nums, ClientAddr)
    /\ seq_num = 1
    /\ client_seq_nums[ClientAddr] = 1
    /\ c_pc = "recv"

\* The datagrams of a direction that the receive loop wrote to a destination
\* itself, at lines 575 and 616.
LoopForwards(dir) ==
    Cardinality({i \in 1..Len(p_sent) : p_sent[i].by = "loop" /\ p_hist[p_sent[i].n].dir = dir})

\* The forwarded figure of the report, lines 632 and 643.
ReportedForwarded(dir) ==
    metrics[PacketsKey(dir)] - metrics[DroppedKey(dir)] - metrics[DelayedKey(dir)]

\* C32: between two datagrams, the forwarded count reported for each direction
\* is the number of datagrams of that direction the receive loop wrote at once
\* to a destination, and the total is the sum of the two directions' counts;
\* also when a server-origin datagram arrives before any client-origin one.
C32_Accounting ==
    p_pc = "recv" =>
        /\ \A dir \in {"c2s", "s2c"} : ReportedForwarded(dir) = LoopForwards(dir)
        /\ metrics.total_packets =
               metrics.client_to_server_packets + metrics.server_to_client_packets

===========================================================================
